---------------------------- MODULE Spec2Model ----------------------------
(***************************************************************************)
(* A model of the gate resizer (src/Resizer.cc): the resize-to-target-slew *)
(* pass, the violation dispatcher, the van Ginneken rebuffer engine        *)
(* (bottom-up option enumeration, pruning, choice at the driver, top-down  *)
(* materialization) and the unique net / buffer naming.                    *)
(*                                                                         *)
(* Numbers: capacitances, delays and required times are integers in a      *)
(* common small unit, so every comparison is exact; the source's fuzzy     *)
(* comparators (fuzzyLess, fuzzyGreater) differ from < and > only within   *)
(* an epsilon far below one unit.  INF is the source's INF; arithmetic on  *)
(* it saturates as single-precision arithmetic on 1e30 does.               *)
(***************************************************************************)
EXTENDS Integers, Sequences, FiniteSets, TLC

VARIABLES
  \* ---- network (LefDefNetwork) ----
  inst_cell,      \* instance name -> [name: liberty/LEF cell name, lef: BOOLEAN]
  pin_net,        \* pin <<instance, port>> -> net name (NoNet when unconnected)
  net_names,      \* names of the nets of the top instance
  inst_loc,       \* instance name -> location <<x, y>>
  parasitics,     \* net name -> wire capacitance of its parasitic network
  \* ---- Resizer fields ----
  corner_,
  wire_res_,
  wire_cap_,
  level_drvr_verticies_valid_,
  level_drvr_verticies_,
  tgt_slews_valid_,
  tgt_slews_,
  target_load_map_,
  unique_net_index_,
  unique_buffer_index_,
  resize_count_,
  inserted_buffer_count_,
  rebuffer_net_count_,
  \* ---- position of the running call ----
  pc,             \* "idle", "resize", "rebuffer", "crashed"
  idx,            \* loop index i of the running pass (1-based)
  args,           \* arguments of the running resize() call
  \* ---- collaborators' data (library, timing, routing) ----
  lib,            \* characterised library data
  sta,            \* timing data found by findDelays / findRequired
  \* ---- observable output and history ----
  report,         \* lines printed through report_->print
  log             \* history of the operations performed (ghost)

networkVars == <<inst_cell, pin_net, net_names, inst_loc, parasitics>>
fieldVars == <<corner_, wire_res_, wire_cap_, level_drvr_verticies_valid_,
               level_drvr_verticies_, tgt_slews_valid_, tgt_slews_,
               target_load_map_, unique_net_index_,
               unique_buffer_index_, resize_count_, inserted_buffer_count_,
               rebuffer_net_count_>>
ctlVars == <<pc, idx, args>>
envVars == <<lib, sta>>
vars == <<networkVars, fieldVars, ctlVars, envVars, report, log>>

-----------------------------------------------------------------------------
(* Bounds of the model. *)

\* setWireRC is called with per-length wire resistance and capacitance up to
\* this value.
MaxWireRC == 1

\* At most this many unique names are asked for in the naming specification.
MaxCalls == 3

-----------------------------------------------------------------------------
(* Names.  A name is a sequence of characters, so that "net%d" formatting  *)
(* and strcmp ordering are computed, not assumed.                          *)

NoNet == << >>
NoCell == "null"

\* ASCII codes of the characters that occur in the model's names.
CharCodes ==
  ( "/" :> 47 @@ "0" :> 48 @@ "1" :> 49 @@ "2" :> 50 @@ "3" :> 51
    @@ "4" :> 52 @@ "5" :> 53 @@ "6" :> 54 @@ "7" :> 55 @@ "8" :> 56
    @@ "9" :> 57 @@ "A" :> 65 @@ "C" :> 67 @@ "D" :> 68 @@ "K" :> 75
    @@ "O" :> 79 @@ "Q" :> 81 @@ "S" :> 83 @@ "Z" :> 90 @@ "b" :> 98
    @@ "c" :> 99 @@ "e" :> 101 @@ "f" :> 102 @@ "k" :> 107 @@ "l" :> 108
    @@ "n" :> 110 @@ "o" :> 111 @@ "p" :> 112 @@ "r" :> 114 @@ "t" :> 116
    @@ "u" :> 117 @@ "x" :> 120 )
CharCode(c) == CharCodes[c]

\* strcmp(a, b) < 0
RECURSIVE stringLess(_, _)
stringLess(a, b) ==
  IF b = << >> THEN FALSE
  ELSE IF a = << >> THEN TRUE
  ELSE IF CharCode(Head(a)) # CharCode(Head(b))
       THEN CharCode(Head(a)) < CharCode(Head(b))
       ELSE stringLess(Tail(a), Tail(b))

DigitChar(d) ==
  CASE d = 0 -> "0" [] d = 1 -> "1" [] d = 2 -> "2" [] d = 3 -> "3"
    [] d = 4 -> "4" [] d = 5 -> "5" [] d = 6 -> "6" [] d = 7 -> "7"
    [] d = 8 -> "8" [] d = 9 -> "9"

\* printf("%d") of a non-negative int.
RECURSIVE Decimal(_)
Decimal(k) ==
  IF k < 10 THEN <<DigitChar(k)>>
  ELSE Decimal(k \div 10) \o <<DigitChar(k % 10)>>

\* stringPrint(name, "net%d", k) and stringPrint(name, "buffer%d", k)
NetName(k) == <<"n", "e", "t">> \o Decimal(k)
BufferName(k) == <<"b", "u", "f", "f", "e", "r">> \o Decimal(k)


-----------------------------------------------------------------------------
(* The library.  Cell names, ports and equivalence groups are fixed; the   *)
(* characterised numbers (target loads, capacitances, delays) are in lib.  *)

LibertyCells == {"INV1", "INV2", "INV3", "DFF1", "DFF2", "HA", "BUF1"}

\* Every cell that has a group, as one group.
anyCells(cell) == <<"INV1", "INV2", "INV3", "DFF1", "DFF2">>

\* LibertyCell::equivCells(): the ordered group of the cell, << >> for none.
equivCells(cell) ==
  CASE cell \in {"INV1", "INV2", "INV3"} -> <<"INV1", "INV2", "INV3">>
    [] cell \in {"DFF1", "DFF2"} -> <<"DFF1", "DFF2">>
    [] OTHER -> << >>

\* LefDefNetwork::lefCell(liberty cell): the LEF macro of the same name;
\* INV3 and DFF2 have none.
lefCell(cell) == IF cell \in {"INV3", "DFF2"} THEN NoCell ELSE cell

\* Ports of a cell, in pin-iterator order.  MACRO is a LEF macro with no
\* liberty cell; HA has two outputs.
CellPorts(cellname) ==
  CASE cellname \in {"INV1", "INV2", "INV3", "BUF1"} -> <<"A", "Z">>
    [] cellname \in {"DFF1", "DFF2"} -> <<"CK", "D", "Q">>
    [] OTHER -> <<"A", "S", "CO">>

isOutput(port) == port \in {"Z", "Q", "S", "CO"}

\* Port names as they print in a path name.
PortChars(port) ==
  CASE port = "A" -> <<"A">> [] port = "Z" -> <<"Z">>
    [] port = "D" -> <<"D">> [] port = "Q" -> <<"Q">>
    [] port = "CK" -> <<"C", "K">> [] port = "S" -> <<"S">>
    [] port = "CO" -> <<"C", "O">> [] port = "clk" -> <<"c", "l", "k">>

-----------------------------------------------------------------------------
(* The design: a register r1 in a loop with two inverters u1, u2, and a    *)
(* side load x1 (a two-output cell or a macro without liberty cell); the   *)
(* clock comes in on the top-level port clk.                               *)
(*    clk -> r1/CK     n1: r1/Q -> u1/A     n2: u1/Z -> u2/A, x1/A         *)
(*    n3: u2/Z -> r1/D                                                     *)

TopInst == <<"t", "o", "p">>
R1 == <<"r", "1">>
U1 == <<"u", "1">>
U2 == <<"u", "2">>
X1 == <<"x", "1">>
ClkNet == <<"c", "l", "k">>
N1 == <<"n", "1">>
N2 == <<"n", "2">>
N3 == <<"n", "3">>

DesignInsts == {R1, U1, U2, X1}

DesignPinNet ==
  ( <<TopInst, "clk">> :> ClkNet @@ <<R1, "CK">> :> ClkNet
    @@ <<R1, "Q">> :> N1 @@ <<U1, "A">> :> N1
    @@ <<U1, "Z">> :> N2 @@ <<U2, "A">> :> N2 @@ <<X1, "A">> :> N2
    @@ <<U2, "Z">> :> N3 @@ <<R1, "D">> :> N3
    @@ <<X1, "S">> :> NoNet @@ <<X1, "CO">> :> NoNet )

DesignLoc ==
  ( R1 :> <<0, 0>> @@ U1 :> <<1, 0>> @@ U2 :> <<3, 1>> @@ X1 :> <<3, 0>> )

-----------------------------------------------------------------------------
(* Network queries. *)

\* The network as one value, so that an operation in progress can carry its
\* own copy.
network_ ==
  [inst_cell |-> inst_cell, pin_net |-> pin_net, net_names |-> net_names,
   inst_loc |-> inst_loc, parasitics |-> parasitics]

Insts == DOMAIN inst_cell
Pins == DOMAIN pin_net

instance(pin) == pin[1]
portOf(pin) == pin[2]

\* Network::pathName(pin)
pathName(pin) ==
  IF instance(pin) = TopInst THEN PortChars(portOf(pin))
  ELSE instance(pin) \o <<"/">> \o PortChars(portOf(pin))

isTopLevelPort(pin) == instance(pin) = TopInst

\* Network::libertyCell(inst): none for the top instance and for a macro.
libertyCell(inst) ==
  IF inst \in Insts /\ inst_cell[inst].name \in LibertyCells
  THEN inst_cell[inst].name ELSE NoCell

\* Network::isLoad / isDriver for leaf pins; a top-level input port drives.
isDriver(pin) ==
  IF isTopLevelPort(pin) THEN TRUE ELSE isOutput(portOf(pin))
isLoad(pin) == ~isDriver(pin)

PinsOfNet(network, net) ==
  {p \in DOMAIN network.pin_net : network.pin_net[p] = net}
LoadsOfNet(network, net) == {p \in PinsOfNet(network, net) : isLoad(p)}
DriversOfNet(network, net) == {p \in PinsOfNet(network, net) : isDriver(p)}

-----------------------------------------------------------------------------
(* Capacitances. *)

\* Resizer::pinCapacitance: the liberty port's capacitance, 0 without one.
pinCapacitance(pin) ==
  IF libertyCell(instance(pin)) # NoCell
  THEN lib.in_cap[libertyCell(instance(pin))] ELSE 0

\* GraphDelayCalc::loadCap(pin): pin capacitances of the net's loads plus
\* the wire capacitance of the net's parasitic network, when it has one.
RECURSIVE SumCaps(_)
SumCaps(S) ==
  IF S = {} THEN 0
  ELSE LET p == CHOOSE q \in S : TRUE
       IN pinCapacitance(p) + SumCaps(S \ {p})

loadCap(pin) ==
  LET net == pin_net[pin]
  IN IF net = NoNet THEN 0
     ELSE SumCaps(LoadsOfNet(network_, net))
          + (IF net \in DOMAIN parasitics THEN parasitics[net] ELSE 0)


-----------------------------------------------------------------------------
(* Steiner trees.  A tree is a nested record: the driver's point with its  *)
(* left subtree; a Steiner point has a location and two children; a leaf   *)
(* is a pin at its instance's location.                                    *)

NullTree == [kind |-> "null"]

\* LefDefNetwork::location(pin): the location of the pin's instance.
location(network, pin) ==
  IF isTopLevelPort(pin) THEN <<0, 0>> ELSE network.inst_loc[instance(pin)]

abs(n) == IF n < 0 THEN -n ELSE n

\* |dx| + |dy| in database units.
Manhattan(a, b) == abs(a[1] - b[1]) + abs(a[2] - b[2])

\* The pins of S ordered by x coordinate, then path name.
RECURSIVE SortByX(_, _)
SortByX(network, S) ==
  IF S = {} THEN << >>
  ELSE LET m == CHOOSE p \in S : \A q \in S \ {p} :
                  \/ location(network, p)[1] < location(network, q)[1]
                  \/ /\ location(network, p)[1] = location(network, q)[1]
                     /\ stringLess(pathName(p), pathName(q))
       IN <<m>> \o SortByX(network, S \ {m})

\* A trunk along the driver's y coordinate: each Steiner point branches to
\* the next load on the left and carries the other loads on the right.
RECURSIVE Trunk(_, _, _)
Trunk(network, loads, y) ==
  IF Len(loads) = 1
  THEN [kind |-> "pin", pin |-> loads[1], loc |-> location(network, loads[1])]
  ELSE [kind |-> "steiner", loc |-> <<location(network, loads[1])[1], y>>,
        left |-> [kind |-> "pin", pin |-> loads[1],
                  loc |-> location(network, loads[1])],
        right |-> Trunk(network, Tail(loads), y)]

\* makeSteinerTree(net, true, network): null for a net without driver or
\* without load.
makeSteinerTree(network, net) ==
  IF DriversOfNet(network, net) = {} \/ LoadsOfNet(network, net) = {}
  THEN NullTree
  ELSE LET d == CHOOSE p \in DriversOfNet(network, net) : TRUE
       IN [kind |-> "drvr", pin |-> d, loc |-> location(network, d),
           left |-> Trunk(network, SortByX(network, LoadsOfNet(network, net)),
                          location(network, d)[2])]

\* SteinerTree::isPlaced: every pin of the net has a location; the top-level
\* ports of this design have none.
isPlaced(network, net) ==
  \A p \in PinsOfNet(network, net) : ~isTopLevelPort(p)

\* The sum of the branch lengths below (and including the wire to) node k.
RECURSIVE BranchLength(_, _)
BranchLength(k, prev_loc) ==
  IF k.kind = "null" THEN 0
  ELSE Manhattan(k.loc, prev_loc)
       + (IF k.kind = "steiner"
          THEN BranchLength(k.left, k.loc) + BranchLength(k.right, k.loc)
          ELSE 0)

\* Resizer::makeNetParasitics(net): the wire capacitance put on the net's
\* parasitic network (each branch adds wire_cap/2 at both ends); no
\* parasitic without a placed tree.
netWireCap(network, net, wire_cap) ==
  LET tree == makeSteinerTree(network, net)
  IN BranchLength(tree.left, tree.loc) * wire_cap

hasPlacedTree(network, net) ==
  makeSteinerTree(network, net).kind # "null" /\ isPlaced(network, net)

-----------------------------------------------------------------------------
(* Levelization and the levelized vertex list. *)

\* The pins of an instance, in pin-iterator order.
InstPins(inst) ==
  LET ports == CellPorts(inst_cell[inst].name)
  IN [i \in 1..Len(ports) |-> <<inst, ports[i]>>]

\* Fanin of a pin's vertex in the timing graph: the driver of a load's net;
\* for an output, the inputs with a timing arc to it (a register's Q is
\* reached from CK only, its D ends the path).
Fanin(pin) ==
  IF isTopLevelPort(pin) THEN {}
  ELSE IF isLoad(pin)
       THEN (IF pin_net[pin] = NoNet THEN {}
             ELSE DriversOfNet(network_, pin_net[pin]))
       ELSE {<<instance(pin), q>> : q \in
               IF portOf(pin) = "Q" THEN {"CK"} ELSE {"A"}}

Max(a, b) == IF a > b THEN a ELSE b
Min(a, b) == IF a < b THEN a ELSE b

\* Vertex::level(): the longest path depth from a root.
RECURSIVE Level(_)
RECURSIVE MaxLevel(_)
Level(pin) == IF Fanin(pin) = {} THEN 0 ELSE 1 + MaxLevel(Fanin(pin))
MaxLevel(S) ==
  IF S = {} THEN 0
  ELSE LET p == CHOOSE q \in S : TRUE
       IN Max(Level(p), MaxLevel(S \ {p}))

\* A variant of VertexLevelLess that orders by decreasing level.
VertexLevelGreater(vertex1, vertex2) ==
  \/ vertex1[1] > vertex2[1]
  \/ /\ vertex1[1] = vertex2[1]
     /\ stringLess(pathName(vertex1[2]), pathName(vertex2[2]))

\* VertexLevelLess::operator() on vertices given as <<level, pin>>.
VertexLevelLess(vertex1, vertex2) ==
  \/ vertex1[1] < vertex2[1]
  \/ /\ vertex1[1] = vertex2[1]
     \* Break ties for stable results.
     /\ stringLess(pathName(vertex1[2]), pathName(vertex2[2]))

\* sort(level_drvr_verticies_, VertexLevelLess(network_)): the pins of the
\* vertices of S in increasing order.
RECURSIVE SortVertices(_)
SortVertices(S) ==
  IF S = {} THEN << >>
  ELSE LET m == CHOOSE v \in S : \A w \in S \ {v} : VertexLevelLess(v, w)
       IN <<m[2]>> \o SortVertices(S \ {m})

\* The list ensureLevelDrvrVerticies builds: every vertex of the graph.
LevelDrvrVerticies == SortVertices({<<Level(p), p>> : p \in Pins})

-----------------------------------------------------------------------------
(* Timing: delays, required times, slews and limits.  The numbers come     *)
(* from the library (lib) and from the timing analysis (sta).              *)

\* The STA's INF, used as "unconstrained" and as the start of a maximum.
INF == 1000

\* A float near INF absorbs a small term: the result of an operation is a
\* multiple of INF as soon as its magnitude reaches INF/2.
Norm(x) ==
  IF abs(x) < INF \div 2 THEN x ELSE ((x + INF \div 2) \div INF) * INF

\* a - b in float arithmetic
FSub(a, b) == Norm(a - b)

\* A variant of fuzzyInf that takes every value for finite.
neverInf(value) == FALSE

\* fuzzyInf(value)
fuzzyInf(value) == abs(value) = INF

NoPort == <<NoCell, "null">>

\* network_->libertyPort(pin): none for a top-level port or a macro pin.
libertyPort(pin) ==
  IF libertyCell(instance(pin)) # NoCell
  THEN <<libertyCell(instance(pin)), portOf(pin)>> ELSE NoPort

\* Resizer::gateDelay(out_port, load_cap): the maximum over the arcs to
\* out_port, -INF when no arc ends there (an input port).
gateDelay(out_port, load_cap) ==
  IF isOutput(out_port[2])
  THEN lib.delay[out_port[1]].d0 + lib.delay[out_port[1]].k * load_cap
  ELSE -INF

\* Resizer::bufferDelay(buffer_cell, load_cap)
bufferDelay(buffer_cell, load_cap) == gateDelay(<<buffer_cell, "Z">>, load_cap)

\* Resizer::bufferInputCapacitance(buffer_cell)
bufferInputCapacitance(buffer_cell) == lib.in_cap[buffer_cell]

\* Resizer::vertexRequired: the required time of the pin's paths, INF when
\* none is constrained.  An endpoint's required time is the analysis's; the
\* others follow from their fanout.
RECURSIVE vertexRequired(_)
RECURSIVE MinRequired(_)
RECURSIVE MinRequiredThrough(_)
vertexRequired(pin) ==
  IF pin \in DOMAIN sta.required THEN sta.required[pin]
  ELSE IF isTopLevelPort(pin) \/ isDriver(pin)
       THEN (IF pin_net[pin] = NoNet THEN INF
             ELSE MinRequired(LoadsOfNet(network_, pin_net[pin])))
       ELSE MinRequiredThrough(
              {q \in Pins : instance(q) = instance(pin) /\ isDriver(q)
                            /\ libertyPort(q) # NoPort /\ pin \in Fanin(q)})
MinRequired(S) ==
  IF S = {} THEN INF
  ELSE LET p == CHOOSE q \in S : TRUE
       IN Min(vertexRequired(p), MinRequired(S \ {p}))
MinRequiredThrough(S) ==
  IF S = {} THEN INF
  ELSE LET p == CHOOSE q \in S : TRUE
       IN Min(FSub(vertexRequired(p), gateDelay(libertyPort(p), loadCap(p))),
              MinRequiredThrough(S \ {p}))

\* Resizer::pinRequired(pin)
pinRequired(pin) == vertexRequired(pin)

TransRiseFall == {"rise", "fall"}

\* graph_->slew(vertex, tr, ap): the slews found by findDelays().
slew(pin, tr) == IF pin \in DOMAIN sta.slew THEN sta.slew[pin][tr] ELSE 0

\* search_->isClock(vertex)
isClock(pin) == pin \in sta.clocks

NoLimit == [limit |-> 0, exists |-> FALSE]

\* if (limit_exists && (!exists || min_max->compare(limit, new_limit)))
\* for MinMax::max(): use the tightest limit.
Tightest(cur, new) ==
  IF new.exists /\ (~cur.exists \/ cur.limit > new.limit)
  THEN [limit |-> new.limit, exists |-> TRUE] ELSE cur

\* sdc_->slewLimit(port / pin, ...) and sdc_->slewLimit(top_cell, ...)
sdcSlewLimit(pin) ==
  IF pin \in DOMAIN sta.slew_limit THEN sta.slew_limit[pin] ELSE NoLimit
sdcTopSlewLimit == sta.top_slew_limit

\* LibertyPort::slewLimit
portSlewLimit(port) ==
  IF port[1] \in DOMAIN lib.slew_limit THEN lib.slew_limit[port[1]]
  ELSE NoLimit

\* Resizer::slewLimit(pin, tr, max, limit, exists).  top_limit is what the
\* caller's variable holds when the design has no limit: nothing in this
\* file assigns it.
slewLimit(pin, top_limit) ==
  LET top == sdcTopSlewLimit
      \* Default to top ("design") limit.
      dflt == [limit |-> IF top.exists THEN top.limit ELSE top_limit,
               exists |-> top.exists]
  IN IF isTopLevelPort(pin) THEN Tightest(dflt, sdcSlewLimit(pin))
     ELSE LET l1 == Tightest(dflt, sdcSlewLimit(pin))
          IN IF libertyPort(pin) # NoPort
             THEN Tightest(l1, portSlewLimit(libertyPort(pin))) ELSE l1

\* Resizer::hasMaxSlewViolation(drvr_pin): slew > limit for rise or fall;
\* exists is not looked at.
hasMaxSlewViolation(drvr_pin, top_limit) ==
  \E tr \in TransRiseFall :
     slew(drvr_pin, tr) > slewLimit(drvr_pin, top_limit).limit

\* LibertyPort::capacitanceLimit: max_capacitance is an output attribute.
capacitanceLimit(port) ==
  IF isOutput(port[2]) /\ port[1] \in DOMAIN lib.cap_limit
  THEN lib.cap_limit[port[1]] ELSE NoLimit

\* Resizer::hasMaxCapViolation(drvr_pin)
hasMaxCapViolation(drvr_pin) ==
  LET port == libertyPort(drvr_pin)
  IN IF port # NoPort
     THEN capacitanceLimit(port).exists
          /\ loadCap(drvr_pin) > capacitanceLimit(port).limit
     ELSE FALSE

-----------------------------------------------------------------------------
(* Resize to target slew. *)

Corners == {"typ", "slow"}
NoCorner == "null"
\* Sta::cmd_corner_, the default corner.
cmd_corner_ == "typ"

NullMap == [ptr |-> "null", map |-> << >>]

\* singleOutputPin(inst, network): the output pin when there is exactly one.
singleOutputPin(inst) ==
  LET outs == {i \in DOMAIN InstPins(inst) : isOutput(InstPins(inst)[i][2])}
  IN IF Cardinality(outs) = 1
     THEN InstPins(inst)[CHOOSE i \in outs : TRUE] ELSE <<NoNet, "null">>

\* Variant: the ratio is not folded around 1.
UnfoldedRatio(target_load, load_cap) ==
  IF load_cap = 0 THEN <<0, 1>> ELSE <<target_load, load_cap>>

\* ratio = target_load / load_cap; if (ratio > 1.0) ratio = 1.0 / ratio;
\* as a fraction <<numerator, denominator>>.  A zero load gives inf or NaN,
\* which folds to 0 or compares false: no candidate is then selected.
FoldedRatio(target_load, load_cap) ==
  IF load_cap = 0 THEN <<0, 1>>
  ELSE IF target_load > load_cap THEN <<load_cap, target_load>>
  ELSE <<target_load, load_cap>>

\* Variant: ratio >= best_ratio, so that a later member wins a tie.
RatioGreaterEq(ratio, best_ratio) ==
  ratio[1] * best_ratio[2] >= best_ratio[1] * ratio[2]

\* ratio > best_ratio
RatioGreater(ratio, best_ratio) ==
  ratio[1] * best_ratio[2] > best_ratio[1] * ratio[2]

\* The loop over *equiv_cells of resizeToTargetSlew1: the best cell found
\* from position i on, given the best so far.
RECURSIVE BestCell(_, _, _, _, _)
BestCell(equiv_cells, i, load_cap, best_ratio, best_cell) ==
  IF i > Len(equiv_cells) THEN best_cell
  ELSE LET target_cell == equiv_cells[i]
           ratio == FoldedRatio(target_load_map_.map[target_cell], load_cap)
       IN IF RatioGreater(ratio, best_ratio)
          THEN BestCell(equiv_cells, i + 1, load_cap, ratio, target_cell)
          ELSE BestCell(equiv_cells, i + 1, load_cap, best_ratio, best_cell)

\* Whether resizeToTargetSlew1 reaches the read of *target_load_map_.
ReadsTargetLoads(inst) ==
  /\ libertyCell(inst) # NoCell
  /\ singleOutputPin(inst)[2] # "null"
  /\ equivCells(libertyCell(inst)) # << >>

\* Resizer::resizeToTargetSlew1(inst): the instance's cell afterwards and
\* whether resize_count_ was incremented.
resizeToTargetSlew1(inst) ==
  LET cell == libertyCell(inst)
      keep == [cell |-> IF inst \in Insts THEN inst_cell[inst]
                        ELSE [name |-> NoCell, lef |-> FALSE],
               counted |-> FALSE, load_cap |-> 0, best_cell |-> NoCell]
  IN IF ~ReadsTargetLoads(inst) THEN keep
     ELSE
       LET load_cap == loadCap(singleOutputPin(inst))
           best_cell == BestCell(equivCells(cell), 1, load_cap, <<0, 1>>,
                                 NoCell)
           seen == [keep EXCEPT !.load_cap = load_cap,
                                !.best_cell = best_cell]
       IN IF best_cell # NoCell /\ best_cell # cell
          THEN IF inst_cell[inst].lef
               THEN \* Replace LEF with LEF so ports stay aligned.
                    IF lefCell(best_cell) # NoCell
                    THEN [seen EXCEPT
                            !.cell = [name |-> lefCell(best_cell),
                                      lef |-> TRUE],
                            !.counted = TRUE]
                    ELSE seen
               ELSE [seen EXCEPT
                       !.cell = [name |-> best_cell, lef |-> FALSE],
                       !.counted = TRUE]
          ELSE seen

-----------------------------------------------------------------------------
(* Rebuffering, bottom up: the options of a routing tree. *)

NoOption == [type |-> "null"]
NoPin == <<NoNet, "null">>

\* RebufferOption::RebufferOption
RebufferOption(type, cap, required, load_pin, location_, ref, ref2) ==
  [type |-> type, cap |-> cap, required |-> required, load_pin |-> load_pin,
   location |-> location_, ref |-> ref, ref2 |-> ref2]

\* A variant of bufferRequired that leaves out the buffer's delay.
optionRequired(option, buffer_cell) == option.required

\* RebufferOption::bufferRequired(buffer_cell, resizer)
bufferRequired(option, buffer_cell) ==
  FSub(option.required, bufferDelay(buffer_cell, option.cap))

\* The loop of addWireAndBuffer over Z: the wire options Z1 and, in best and
\* best_ref, the largest buffer required time of a wire option with the
\* option p the wire extends (best_ref = 0: none).
RECURSIVE addWires(_, _, _, _, _, _)
addWires(Z, i, prev_loc, wire_cap, wire_delay, acc) ==
  IF i > Len(Z) THEN acc
  ELSE LET p == Z[i]
           z == RebufferOption("wire",
                               \* account for wire load
                               p.cap + wire_cap,
                               \* account for wire delay
                               FSub(p.required, wire_delay),
                               NoPin, prev_loc, p, NoOption)
           rt == bufferRequired(z, acc.buffer_cell)
           acc1 == [acc EXCEPT !.Z1 = Append(acc.Z1, z)]
       IN addWires(Z, i + 1, prev_loc, wire_cap, wire_delay,
                   IF rt > acc.best
                   THEN [acc1 EXCEPT !.best = rt, !.best_ref = i]
                   ELSE acc1)

\* Resizer::addWireAndBuffer(Z, tree, k, prev, level, buffer_cell)
addWireAndBuffer(Z, k_loc, prev_loc, buffer_cell) ==
  LET wire_length == Manhattan(k_loc, prev_loc)
      wire_cap == wire_length * wire_cap_
      wire_res == wire_length * wire_res_
      wire_delay == wire_res * wire_cap
      r == addWires(Z, 1, prev_loc, wire_cap, wire_delay,
                    [Z1 |-> << >>, best |-> -INF, best_ref |-> 0,
                     buffer_cell |-> buffer_cell])
  IN IF r.best_ref # 0
     THEN Append(r.Z1,
                 RebufferOption("buffer",
                                bufferInputCapacitance(buffer_cell),
                                r.best, NoPin,
                                \* Locate buffer at opposite end of wire.
                                prev_loc, Z[r.best_ref], NoOption))
     ELSE r.Z1

\* Combine the options from both branches.
junctions(Zl, Zr, k_loc) ==
  [n \in 1..(Len(Zl) * Len(Zr)) |->
     LET p == Zl[((n - 1) \div Len(Zr)) + 1]
         q == Zr[((n - 1) % Len(Zr)) + 1]
     IN RebufferOption("junction", p.cap + q.cap,
                       Min(p.required, q.required), NoPin, k_loc, p, q)]

\* The inner loop of the pruning, "for (auto q : Z2)", from position j on;
\* qi counts the non-null options met so far and indexes Z2 from 0.
RECURSIVE pruneAgainst(_, _, _, _, _, _)
pruneAgainst(Z2, Tp, Lp, j, qi, buffer_cell) ==
  IF j > Len(Z2) THEN Z2
  ELSE LET q == Z2[j]
       IN IF q.type # "null"
          THEN LET Tq == bufferRequired(q, buffer_cell)
                   Lq == q.cap
               IN pruneAgainst(IF Tq < Tp /\ Lq > Lp
                               \* If q is strictly worse than p, remove
                               \* solution q.
                               THEN [Z2 EXCEPT ![qi + 1] = NoOption]
                               ELSE Z2,
                               Tp, Lp, j + 1, qi + 1, buffer_cell)
          ELSE pruneAgainst(Z2, Tp, Lp, j + 1, qi, buffer_cell)

\* The outer loop of the pruning, "for (auto p : Z2)", from position i on.
RECURSIVE prune(_, _, _)
prune(Z2, i, buffer_cell) ==
  IF i > Len(Z2) THEN Z2
  ELSE LET p == Z2[i]
       IN IF p.type # "null"
          THEN prune(pruneAgainst(Z2, bufferRequired(p, buffer_cell), p.cap,
                                  1, 0, buffer_cell),
                     i + 1, buffer_cell)
          ELSE prune(Z2, i + 1, buffer_cell)

\* Save the survivors.
survivors(Z2) == SelectSeq(Z2, LAMBDA p : p.type # "null")

\* Resizer::rebufferBottomUp(tree, k, prev, level, buffer_cell); k is the
\* subtree at point k, prev_loc the location of point prev.
RECURSIVE rebufferBottomUp(_, _, _)
rebufferBottomUp(k, prev_loc, buffer_cell) ==
  IF k.kind = "pin" /\ isLoad(k.pin)
  THEN \* Load capacitance and required time.
       addWireAndBuffer(<<RebufferOption("sink", pinCapacitance(k.pin),
                                         pinRequired(k.pin), k.pin, k.loc,
                                         NoOption, NoOption)>>,
                        k.loc, prev_loc, buffer_cell)
  ELSE IF k.kind = "steiner"
  THEN LET Zl == rebufferBottomUp(k.left, k.loc, buffer_cell)
           Zr == rebufferBottomUp(k.right, k.loc, buffer_cell)
           Z2 == junctions(Zl, Zr, k.loc)
           Z == survivors(prune(Z2, 1, buffer_cell))
       IN addWireAndBuffer(Z, k.loc, prev_loc, buffer_cell)
  ELSE << >>

-----------------------------------------------------------------------------
(* Rebuffering, top down: the chosen option becomes buffers and nets. *)

\* Formatting the counter once, without looking for the name.
FirstNetName(network, unique_net_index) ==
  [name |-> NetName(unique_net_index), index |-> unique_net_index + 1]

\* Resizer::makeUniqueNetName(): the name returned and the counter after.
RECURSIVE makeUniqueNetName(_, _)
makeUniqueNetName(network, unique_net_index) ==
  LET node_name == NetName(unique_net_index)
  IN IF node_name \in network.net_names  \* network_->findNet
     THEN makeUniqueNetName(network, unique_net_index + 1)
     ELSE [name |-> node_name, index |-> unique_net_index + 1]

\* Resizer::makeUniqueBufferName()
RECURSIVE makeUniqueBufferName(_, _)
makeUniqueBufferName(network, unique_buffer_index) ==
  LET buffer_name == BufferName(unique_buffer_index)
  IN IF buffer_name \in DOMAIN network.inst_cell  \* network_->findInstance
     THEN makeUniqueBufferName(network, unique_buffer_index + 1)
     ELSE [name |-> buffer_name, index |-> unique_buffer_index + 1]

\* network->makeNet(name, parent)
makeNet(network, name) ==
  [network EXCEPT !.net_names = network.net_names \cup {name}]

\* network->makeInstance(cell, name, parent): the pins start unconnected.
makeInstance(network, cell, name) ==
  LET ports == CellPorts(cell)
      pins == {<<name, ports[i]>> : i \in DOMAIN ports}
  IN [network EXCEPT
        !.inst_cell = (name :> [name |-> cell, lef |-> FALSE]) @@ @,
        !.inst_loc = (name :> <<0, 0>>) @@ @,
        !.pin_net = [q \in pins |-> NoNet] @@ @]

\* A variant of connectPin that leaves the pin where it is.
leavePin(network, inst, port, net) == network

\* connectPin(inst, port, net)
connectPin(network, inst, port, net) ==
  [network EXCEPT !.pin_net[<<inst, port>>] = net]

\* disconnectPin(pin)
disconnectPin(network, pin) == [network EXCEPT !.pin_net[pin] = NoNet]

\* Leaving the instance where makeInstance put it.
keepLocation(network, inst, loc) == network

\* network->setLocation(inst, location)
setLocation(network, inst, loc) == [network EXCEPT !.inst_loc[inst] = loc]

\* Resizer::makeNetParasitics(net): a net with a placed tree gets a new
\* parasitic network; another net keeps what it has.
makeNetParasitics(network, net) ==
  IF hasPlacedTree(network, net)
  THEN [network EXCEPT
          !.parasitics = (net :> netWireCap(network, net, wire_cap_)) @@ @]
  ELSE network

\* The sink case without its connectPin.
disconnectSink(network, load_pin, net) ==
  IF network.pin_net[load_pin] # net
  THEN disconnectPin(network, load_pin)
  ELSE network

\* The sink case of rebufferTopDown.
connectSink(network, load_pin, net) ==
  IF network.pin_net[load_pin] # net
  THEN connectPin(disconnectPin(network, load_pin),
                  instance(load_pin), portOf(load_pin), net)
  ELSE network

\* The buffer case of rebufferTopDown up to its recursive call: the new net
\* and buffer, connected and placed.  made records what was created.
insertBuffer(st, choice, net, buffer_cell) ==
  LET net2_name == makeUniqueNetName(st.network, st.unique_net_index_)
      buffer_name == makeUniqueBufferName(st.network, st.unique_buffer_index_)
      net2 == net2_name.name
      buffer == buffer_name.name
      n1 == makeInstance(makeNet(st.network, net2), buffer_cell, buffer)
      n2 == connectPin(connectPin(n1, buffer, "A", net), buffer, "Z", net2)
  IN [st EXCEPT
        !.network = setLocation(n2, buffer, choice.location),
        !.unique_net_index_ = net2_name.index,
        !.unique_buffer_index_ = buffer_name.index,
        !.level_drvr_verticies_valid_ = FALSE,
        !.made = Append(st.made, [buffer |-> buffer, net |-> net,
                                  net2 |-> net2, option |-> choice])]

\* Resizer::rebufferTopDown(choice, net, level, buffer_cell): the state
\* after, with the returned count in ret.
RECURSIVE rebufferTopDown(_, _, _, _)
rebufferTopDown(choice, net, buffer_cell, st) ==
  CASE choice.type = "buffer" ->
         LET st1 == insertBuffer(st, choice, net, buffer_cell)
             net2 == st1.made[Len(st1.made)].net2
             st2 == rebufferTopDown(choice.ref, net2, buffer_cell, st1)
         IN [st2 EXCEPT
               !.network = makeNetParasitics(makeNetParasitics(@, net), net2),
               !.ret = 1]
    [] choice.type = "wire" ->
         rebufferTopDown(choice.ref, net, buffer_cell, st)
    [] choice.type = "junction" ->
         LET st1 == rebufferTopDown(choice.ref, net, buffer_cell, st)
             st2 == rebufferTopDown(choice.ref2, net, buffer_cell, st1)
         IN [st2 EXCEPT !.ret = st1.ret + st2.ret]
    [] choice.type = "sink" ->
         [st EXCEPT !.network = connectSink(@, choice.load_pin, net),
                    !.ret = 0]

\* The choice at the driver: the first option of Z with the largest
\* required time after the driver's gate delay (0: none).
RECURSIVE bestOption(_, _, _, _, _)
bestOption(Z, i, drvr_port, Tbest, best) ==
  IF i > Len(Z) THEN best
  ELSE LET Tb == FSub(Z[i].required, gateDelay(drvr_port, Z[i].cap))
       IN IF Tb > Tbest
          THEN bestOption(Z, i + 1, drvr_port, Tb, i)
          ELSE bestOption(Z, i + 1, drvr_port, Tbest, best)

\* The retained options of every Steiner junction of the subtree at k, as
\* rebufferBottomUp saves them.
RECURSIVE junctionSurvivors(_, _)
junctionSurvivors(k, buffer_cell) ==
  IF k.kind = "steiner"
  THEN <<survivors(prune(junctions(
                           rebufferBottomUp(k.left, k.loc, buffer_cell),
                           rebufferBottomUp(k.right, k.loc, buffer_cell),
                           k.loc), 1, buffer_cell))>>
       \o junctionSurvivors(k.left, buffer_cell)
       \o junctionSurvivors(k.right, buffer_cell)
  ELSE << >>

\* The state rebuffer(drvr_pin, buffer_cell) works on: the network and the
\* fields it changes, what it made, the chosen option (best), the count
\* returned by rebufferTopDown (ret), and crashed when the call
\* dereferences a null pointer.
rebufferState ==
  [network |-> network_,
   unique_net_index_ |-> unique_net_index_,
   unique_buffer_index_ |-> unique_buffer_index_,
   level_drvr_verticies_valid_ |-> level_drvr_verticies_valid_,
   made |-> << >>, ret |-> 0, crashed |-> FALSE,
   constrained |-> FALSE, best |-> NoOption, junctions |-> << >>]

\* Resizer::rebuffer(drvr_pin, buffer_cell) from the choice of best on.
rebufferBest(Z, best, net, buffer_cell, st) ==
  IF best # 0
  THEN [rebufferTopDown(Z[best], net, buffer_cell, st)
          EXCEPT !.best = Z[best]]
  ELSE st

\* Resizer::rebuffer(drvr_pin, buffer_cell) with the options Z of the tree.
rebufferOptions(Z, drvr_port, net, buffer_cell, st) ==
  rebufferBest(Z, bestOption(Z, 1, drvr_port, -INF, 0), net, buffer_cell, st)

\* Resizer::rebuffer(drvr_pin, buffer_cell) with the net's Steiner tree.
rebufferTree(drvr_pin, drvr_port, net, tree, buffer_cell) ==
  IF isTopLevelPort(drvr_pin) /\ buffer_cell = NoCell
  THEN [rebufferState EXCEPT !.crashed = TRUE]  \* buffer_cell->bufferPorts
  ELSE IF tree.kind = "null"
  THEN [rebufferState EXCEPT !.crashed = TRUE]  \* tree->drvrPt
  \* Make sure the driver is constrained.
  ELSE IF fuzzyInf(pinRequired(drvr_pin)) THEN rebufferState
  ELSE IF buffer_cell = NoCell \/ drvr_port = NoPort
  THEN [rebufferState EXCEPT !.crashed = TRUE]  \* bufferDelay / gateDelay
  ELSE rebufferOptions(
         rebufferBottomUp(tree.left, tree.loc, buffer_cell),
         drvr_port, net, buffer_cell,
         [rebufferState EXCEPT
            !.constrained = TRUE,
            !.junctions = junctionSurvivors(tree.left, buffer_cell)])

\* Resizer::rebuffer(drvr_pin, buffer_cell)
rebuffer(drvr_pin, buffer_cell) ==
  rebufferTree(drvr_pin,
               IF isTopLevelPort(drvr_pin) THEN <<buffer_cell, "Z">>
               ELSE libertyPort(drvr_pin),
               pin_net[drvr_pin],
               IF pin_net[drvr_pin] = NoNet THEN NullTree
               ELSE makeSteinerTree(network_, pin_net[drvr_pin]),
               buffer_cell)

-----------------------------------------------------------------------------
(* The calls. *)

\* Resizer::initCorner(corner) dereferences the corner.
\* Resizer::setWireRC(wire_res, wire_cap, corner)
SetWireRC(wire_res, wire_cap, corner) ==
  /\ pc = "idle"
  /\ wire_res_' = wire_res
  /\ wire_cap_' = wire_cap
  /\ IF corner = NoCorner
     THEN /\ pc' = "crashed"
          /\ UNCHANGED <<corner_, parasitics>>
     ELSE /\ corner_' = corner
          /\ pc' = "idle"
          \* makeNetParasitics(): every net with a placed Steiner tree.
          /\ parasitics' =
               [n \in {m \in net_names : hasPlacedTree(network_, m)} |->
                  netWireCap(network_, n, wire_cap)]
  /\ UNCHANGED <<inst_cell, pin_net, net_names, inst_loc,
                 level_drvr_verticies_valid_, level_drvr_verticies_,
                 tgt_slews_valid_, tgt_slews_, target_load_map_,
                 unique_net_index_, unique_buffer_index_, resize_count_,
                 inserted_buffer_count_, rebuffer_net_count_,
                 idx, args, lib, sta, report, log>>

\* Resizer::resize(resize, repair_max_cap, repair_max_slew, buffer_cell) up
\* to the start of its first pass: init(), ensureCorner(),
\* ensureTargetLoads().
Resize(resize, repair_max_cap, repair_max_slew, buffer_cell) ==
  LET corner == IF corner_ = NoCorner THEN cmd_corner_ ELSE corner_
      list == IF level_drvr_verticies_valid_ THEN level_drvr_verticies_
              ELSE LevelDrvrVerticies
      find == target_load_map_.ptr = "null"
  IN
  /\ pc = "idle"
  /\ args' = [resize |-> resize, repair_max_cap |-> repair_max_cap,
              repair_max_slew |-> repair_max_slew,
              buffer_cell |-> buffer_cell]
  \* init()
  /\ level_drvr_verticies_' = list
  /\ level_drvr_verticies_valid_' = TRUE
  /\ resize_count_' = 0
  /\ inserted_buffer_count_' = 0
  /\ rebuffer_net_count_' = 0
  \* ensureCorner()
  /\ corner_' = corner
  \* ensureTargetLoads(): findTargetLoads() when the map pointer is null;
  \* that finds the buffer target slews first.
  /\ target_load_map_' =
       IF find THEN [ptr |-> "map", map |-> lib.target_load[corner]]
       ELSE target_load_map_
  /\ tgt_slews_valid_' = (tgt_slews_valid_ \/ find)
  /\ tgt_slews_' = IF find /\ ~tgt_slews_valid_ THEN lib.tgt_slew[corner]
                   ELSE tgt_slews_
  /\ idx' = Len(list)
  /\ pc' = IF resize THEN "resize"
           ELSE IF repair_max_cap \/ repair_max_slew THEN "rebuffer"
           ELSE "idle"
  /\ report' = << >>
  /\ log' = <<[op |-> "resize", start |-> inst_cell, network |-> network_]>>
  /\ UNCHANGED <<networkVars, wire_res_, wire_cap_, unique_net_index_,
                 unique_buffer_index_, lib, sta>>

\* One iteration of the loop of Resizer::resizeToTargetSlew(): the vertex
\* at position idx, in reverse level order.
ResizeStep ==
  /\ pc = "resize"
  /\ idx >= 1
  /\ LET drvr_pin == level_drvr_verticies_[idx]
         inst == instance(drvr_pin)
         r == resizeToTargetSlew1(inst)
     IN IF ReadsTargetLoads(inst) /\ target_load_map_.ptr # "map"
        THEN \* *target_load_map_ through a pointer that was never set
             /\ pc' = "crashed"
             /\ UNCHANGED <<inst_cell, resize_count_, idx, log>>
        ELSE /\ pc' = "resize"
             /\ idx' = idx - 1
             /\ inst_cell' = IF inst \in Insts
                             THEN [inst_cell EXCEPT ![inst] = r.cell]
                             ELSE inst_cell
             /\ resize_count_' = resize_count_ + (IF r.counted THEN 1 ELSE 0)
             /\ log' = Append(log,
                  [op |-> "visit", pin |-> drvr_pin, inst |-> inst,
                   liberty |-> libertyCell(inst),
                   lef |-> IF inst \in Insts THEN inst_cell[inst].lef
                           ELSE FALSE,
                   output |-> IF inst \in Insts THEN singleOutputPin(inst)
                              ELSE <<NoNet, "null">>,
                   load_cap |-> IF inst \in Insts
                                  /\ singleOutputPin(inst)[2] # "null"
                                THEN loadCap(singleOutputPin(inst)) ELSE 0,
                   to |-> r.cell.name, counted |-> r.counted])
  /\ UNCHANGED <<pin_net, net_names, inst_loc, parasitics, corner_,
                 wire_res_, wire_cap_, level_drvr_verticies_valid_,
                 level_drvr_verticies_, tgt_slews_valid_, tgt_slews_,
                 target_load_map_, unique_net_index_, unique_buffer_index_,
                 inserted_buffer_count_, rebuffer_net_count_, args, lib, sta,
                 report>>


\* The end of resizeToTargetSlew() and what resize() does next: the report
\* line, then rebuffer() when a repair flag is set.
ResizeDone ==
  /\ pc = "resize"
  /\ idx = 0
  /\ report' = Append(report, [line |-> "Resized", n |-> resize_count_,
                               m |-> 0])
  /\ IF args.repair_max_cap \/ args.repair_max_slew
     THEN /\ pc' = "rebuffer"
          /\ idx' = Len(level_drvr_verticies_)
     ELSE /\ pc' = "idle"
          /\ idx' = 0
  /\ UNCHANGED <<networkVars, fieldVars, args, lib, sta, log>>

\* What an uninitialised float may hold, as far as a comparison can tell.
Indeterminate == {-INF, INF}

\* The body of the loop of Resizer::rebuffer(repair_max_cap,
\* repair_max_slew, buffer_cell) for drvr_pin: cap and slew tell which
\* violation was found, r is the outcome of rebuffer(drvr_pin, buffer_cell)
\* when one was.
rebufferVertex(drvr_pin, cap, slew_, r) ==
  IF r.crashed
  THEN /\ pc' = "crashed"
       /\ UNCHANGED <<networkVars, unique_net_index_, unique_buffer_index_,
                      level_drvr_verticies_valid_, inserted_buffer_count_,
                      rebuffer_net_count_, idx, log>>
  ELSE /\ pc' = "rebuffer"
       /\ idx' = idx - 1
       /\ inst_cell' = r.network.inst_cell
       /\ pin_net' = r.network.pin_net
       /\ net_names' = r.network.net_names
       /\ inst_loc' = r.network.inst_loc
       /\ parasitics' = r.network.parasitics
       /\ unique_net_index_' = r.unique_net_index_
       /\ unique_buffer_index_' = r.unique_buffer_index_
       /\ level_drvr_verticies_valid_' = r.level_drvr_verticies_valid_
       /\ inserted_buffer_count_' =
            IF r.ret > 0 THEN inserted_buffer_count_ + r.ret
            ELSE inserted_buffer_count_
       /\ rebuffer_net_count_' =
            IF r.ret > 0 THEN rebuffer_net_count_ + 1
            ELSE rebuffer_net_count_
       /\ log' = Append(log,
            [op |-> "rebuffer", pin |-> drvr_pin, run |-> cap \/ slew_,
             cap |-> cap, slew |-> slew_, load_cap |-> loadCap(drvr_pin),
             net |-> pin_net[drvr_pin],
             before |-> IF cap \/ slew_ THEN network_ ELSE << >>,
             after |-> IF cap \/ slew_ THEN r.network ELSE << >>,
             constrained |-> r.constrained, best |-> r.best,
             junctions |-> r.junctions, made |-> r.made,
             insert_count |-> r.ret])

\* One iteration of that loop: the vertex at position idx, in reverse level
\* order.
RebufferStep ==
  /\ pc = "rebuffer"
  /\ idx >= 1
  /\ \E top_limit \in Indeterminate :
       \E cap \in {/\ ~isClock(level_drvr_verticies_[idx])  \* Hands off the
                   /\ args.repair_max_cap                   \* clock tree.
                   /\ hasMaxCapViolation(level_drvr_verticies_[idx])} :
         \E slew_ \in {/\ ~isClock(level_drvr_verticies_[idx])
                       /\ ~cap
                       /\ args.repair_max_slew
                       /\ hasMaxSlewViolation(level_drvr_verticies_[idx],
                                              top_limit)} :
           \E r \in {IF cap \/ slew_
                     THEN rebuffer(level_drvr_verticies_[idx],
                                   args.buffer_cell)
                     ELSE rebufferState} :
             rebufferVertex(level_drvr_verticies_[idx], cap, slew_, r)
  /\ UNCHANGED <<corner_, wire_res_, wire_cap_, level_drvr_verticies_,
                 tgt_slews_valid_, tgt_slews_, target_load_map_,
                 resize_count_, args, lib, sta, report>>

\* The end of the rebuffer loop and of resize(): the report line.
RebufferDone ==
  /\ pc = "rebuffer"
  /\ idx = 0
  /\ report' = Append(report, [line |-> "Inserted",
                               n |-> inserted_buffer_count_,
                               m |-> rebuffer_net_count_])
  /\ pc' = "idle"
  /\ UNCHANGED <<networkVars, fieldVars, idx, args, lib, sta, log>>

-----------------------------------------------------------------------------
(* Initial states. *)

\* The state Resizer::Resizer() leaves, or an idle Resizer whose name
\* counters have reached index: target_load_map_ and the three
\* counters are not in the initialiser list.  The counters are set by init()
\* before any read; the map pointer is read by ensureTargetLoads(), so it
\* starts null or as whatever the allocation held.
Started(index) ==
  /\ corner_ = NoCorner
  /\ wire_res_ = 0
  /\ wire_cap_ = 0
  /\ level_drvr_verticies_valid_ = FALSE
  /\ level_drvr_verticies_ = << >>
  /\ tgt_slews_valid_ = FALSE
  /\ tgt_slews_ = 0
  /\ target_load_map_ \in {NullMap, [ptr |-> "garbage", map |-> << >>]}
  /\ unique_net_index_ = index
  /\ unique_buffer_index_ = index
  /\ resize_count_ = 0
  /\ inserted_buffer_count_ = 0
  /\ rebuffer_net_count_ = 0
  /\ pc = "idle"
  /\ idx = 0
  /\ args = [resize |-> FALSE, repair_max_cap |-> FALSE,
             repair_max_slew |-> FALSE, buffer_cell |-> NoCell]
  /\ report = << >>
  /\ log = << >>

\* unique_net_index_(1), unique_buffer_index_(1)
Constructed == Started(1)

\* The design as read: either from LEF/DEF (every instance is bound to a
\* LEF macro, so only cells with a macro occur) or linked to liberty cells.
DesignCells ==
  {f \in [DesignInsts -> [name : LibertyCells \cup {"MACRO"},
                          lef : BOOLEAN]] :
     /\ f[R1].name \in {"DFF1", "DFF2"}
     /\ f[U1].name \in {"INV1", "INV2", "INV3"}
     /\ f[U2].name \in {"INV1", "INV2", "INV3"}
     /\ f[X1].name \in {"HA", "MACRO"}
     /\ \A i \in DesignInsts :
          /\ f[i].lef = f[R1].lef
          /\ f[i].lef => f[i].name = "MACRO" \/ lefCell(f[i].name) # NoCell
          /\ f[i].name = "MACRO" => f[i].lef}

DesignNetwork ==
  /\ inst_cell \in DesignCells
  /\ pin_net = DesignPinNet
  /\ net_names = {ClkNet, N1, N2, N3}
  /\ inst_loc = DesignLoc
  /\ parasitics = << >>

\* Library capacitances of the input ports.
LibInCap ==
  ( "INV1" :> 1 @@ "INV2" :> 2 @@ "INV3" :> 4 @@ "DFF1" :> 1 @@ "DFF2" :> 3
    @@ "HA" :> 2 @@ "BUF1" :> 1 )

\* Target loads the characterisation may find (0: no qualifying arc).
TargetLoadValues == {0, 1, 6}

NoTiming == [none |-> TRUE]

InitResize ==
  /\ Constructed
  /\ DesignNetwork
  /\ \E tl \in [{"INV1", "INV2", "INV3"} -> TargetLoadValues],
        td \in {("DFF1" :> 1 @@ "DFF2" :> 6)} :
       lib = [target_load |->
                [c \in Corners |->
                   [cell \in LibertyCells |->
                      IF cell \in DOMAIN tl THEN tl[cell]
                      ELSE IF cell \in DOMAIN td THEN td[cell] ELSE 2]],
              tgt_slew |-> [c \in Corners |-> 10],
              in_cap |-> LibInCap]
  /\ sta = NoTiming

NextResize ==
  \/ \E wire_cap \in 0..MaxWireRC : SetWireRC(1, wire_cap, "typ")
  \/ Resize(TRUE, FALSE, FALSE, "BUF1")
  \/ ResizeStep
  \/ ResizeDone

SpecResize == InitResize /\ [][NextResize]_vars


-----------------------------------------------------------------------------
(* Corners: a library whose target slew and target loads differ between    *)
(* the corners, and the calls that change the corner.                      *)

\* Resizer::resizeToTargetSlew(inst, corner) up to its call of
\* resizeToTargetSlew1: initCorner(corner), ensureTargetLoads().  init() is
\* not called: resize_count_ keeps counting from what it holds.
ResizeToTargetSlew(inst, corner) ==
  /\ pc = "idle"
  /\ corner_' = corner
  /\ target_load_map_' =
       IF target_load_map_.ptr = "null"
       THEN [ptr |-> "map", map |-> lib.target_load[corner]]
       ELSE target_load_map_
  /\ tgt_slews_valid_' = (tgt_slews_valid_ \/ target_load_map_.ptr = "null")
  /\ tgt_slews_' = IF target_load_map_.ptr = "null" /\ ~tgt_slews_valid_
                   THEN lib.tgt_slew[corner] ELSE tgt_slews_
  /\ args' = [resize |-> TRUE, repair_max_cap |-> FALSE,
              repair_max_slew |-> FALSE, buffer_cell |-> NoCell,
              inst |-> inst]
  /\ pc' = "resize_inst"
  /\ UNCHANGED <<networkVars, wire_res_, wire_cap_,
                 level_drvr_verticies_valid_, level_drvr_verticies_,
                 unique_net_index_, unique_buffer_index_, resize_count_,
                 inserted_buffer_count_, rebuffer_net_count_, idx, lib, sta,
                 report, log>>

\* The call of resizeToTargetSlew1(inst) that ends
\* Resizer::resizeToTargetSlew(inst, corner).
ResizeToTargetSlewInst ==
  /\ pc = "resize_inst"
  /\ pc' = "idle"
  /\ inst_cell' = [inst_cell EXCEPT
                     ![args.inst] = resizeToTargetSlew1(args.inst).cell]
  /\ resize_count_' =
       resize_count_ + (IF resizeToTargetSlew1(args.inst).counted
                        THEN 1 ELSE 0)
  /\ UNCHANGED <<pin_net, net_names, inst_loc, parasitics, corner_,
                 wire_res_, wire_cap_, level_drvr_verticies_valid_,
                 level_drvr_verticies_, tgt_slews_valid_, tgt_slews_,
                 target_load_map_, unique_net_index_, unique_buffer_index_,
                 inserted_buffer_count_, rebuffer_net_count_, idx, args, lib,
                 sta, report, log>>

\* Target loads and target slew of the library at each corner.
CornerTargetLoads ==
  [c \in Corners |->
     [cell \in LibertyCells |->
        CASE cell = "INV1" -> IF c = "typ" THEN 1 ELSE 6
          [] cell = "INV2" -> IF c = "typ" THEN 6 ELSE 1
          [] cell = "DFF2" -> 6
          [] OTHER -> 1]]
CornerTargetSlews == [c \in Corners |-> IF c = "typ" THEN 10 ELSE 20]

InitCorners ==
  /\ Constructed
  /\ target_load_map_ = NullMap
  /\ DesignNetwork
  /\ ~inst_cell[R1].lef
  /\ inst_cell[U1].name # "INV3"
  /\ inst_cell[U2].name # "INV3"
  /\ lib = [target_load |-> CornerTargetLoads,
            tgt_slew |-> CornerTargetSlews,
            in_cap |-> LibInCap]
  /\ sta = NoTiming

NextCorners ==
  \/ \E corner \in Corners : SetWireRC(1, 0, corner)
  \/ Resize(TRUE, FALSE, FALSE, "BUF1")
  \/ ResizeStep
  \/ ResizeDone
  \/ \E inst \in {U1, U2}, corner \in Corners :
       ResizeToTargetSlew(inst, corner)
  \/ ResizeToTargetSlewInst

SpecCorners == InitCorners /\ [][NextCorners]_vars

-----------------------------------------------------------------------------
(* Rebuffering a design with timing data. *)

\* Delays of the library cells: d0 + k * load_cap; drive is the k of INV1,
\* the other gates' delays do not depend on the load.
DriveStrengths == {0, 2}
GateDelays(drive) ==
  [c \in LibertyCells \ {"BUF1"} |->
     [d0 |-> 1, k |-> IF c = "INV1" THEN drive ELSE 0]]
BufferDelays == {[d0 |-> 0, k |-> 1], [d0 |-> 1, k |-> 1]}

\* Slews found on the driver and loads of each net, and the design's limit.
FastSlew == [rise |-> 1, fall |-> 1]
SlowSlew == [rise |-> 5, fall |-> 1]
DesignSlewLimit == [limit |-> 3, exists |-> TRUE]

\* The slews of the pins when the nets of S are slow.
PinSlews(S) ==
  [p \in DOMAIN DesignPinNet |->
     IF DesignPinNet[p] \in S THEN SlowSlew ELSE FastSlew]

ClockPins == {<<TopInst, "clk">>, <<R1, "CK">>}

\* The library and the timing analysis's data: the loop ends in r1/D; x1's
\* input may carry a constraint of its own.
Timing(buffer_delay, drive, cap_limit, r1_required, x1_required, slow, top) ==
  /\ lib = [target_load |->
              [c \in Corners |-> [cell \in LibertyCells |-> 2]],
            tgt_slew |-> [c \in Corners |-> 10],
            in_cap |-> LibInCap,
            delay |-> ("BUF1" :> buffer_delay) @@ GateDelays(drive),
            cap_limit |-> ("INV1" :> cap_limit),
            slew_limit |-> << >>]
  /\ sta = [required |-> (<<R1, "D">> :> r1_required)
                         @@ (<<X1, "A">> :> x1_required),
            slew |-> PinSlews(slow),
            top_slew_limit |-> top,
            slew_limit |-> << >>,
            clocks |-> ClockPins]

\* The design linked to liberty cells, with a slew limit on the design.
InitRebuffer ==
  /\ Constructed
  /\ target_load_map_ = NullMap
  /\ DesignNetwork
  /\ ~inst_cell[R1].lef
  /\ inst_cell[R1].name = "DFF1"
  /\ inst_cell[U1].name = "INV1"
  /\ inst_cell[U2].name \in {"INV1", "INV2"}
  /\ \E buffer_delay \in BufferDelays, drive \in DriveStrengths,
        cap_limit \in {NoLimit, [limit |-> 2, exists |-> TRUE]},
        r1_required \in {6, 20}, x1_required \in {10, INF},
        slow \in SUBSET {N2, N3} :
       Timing(buffer_delay, drive, cap_limit, r1_required, x1_required,
              slow, DesignSlewLimit)

NextRebuffer ==
  \/ \E wire_rc \in 0..MaxWireRC : SetWireRC(wire_rc, wire_rc, "typ")
  \/ \E repair_max_cap \in BOOLEAN, repair_max_slew \in BOOLEAN :
       /\ unique_buffer_index_ = 1
       /\ repair_max_cap \/ repair_max_slew
       /\ Resize(FALSE, repair_max_cap, repair_max_slew, "BUF1")
  \/ RebufferStep
  \/ RebufferDone

SpecRebuffer == InitRebuffer /\ [][NextRebuffer]_vars

-----------------------------------------------------------------------------
(* The max-slew check on its own: slews and limits of every kind, and      *)
(* calls of hasMaxSlewViolation on a gate output and on a top-level port.  *)

SlewLimits == {[limit |-> 0, exists |-> FALSE], [limit |-> 2, exists |-> TRUE],
               [limit |-> 4, exists |-> TRUE]}
SlewValues == {1, 3, 5}
CheckedPins == {<<U1, "Z">>, <<TopInst, "clk">>}

InitSlew ==
  /\ Constructed
  /\ target_load_map_ = NullMap
  /\ DesignNetwork
  /\ inst_cell = [i \in DesignInsts |->
                    [name |-> IF i = R1 THEN "DFF1"
                              ELSE IF i = X1 THEN "HA" ELSE "INV1",
                     lef |-> FALSE]]
  /\ \E top \in {NoLimit, [limit |-> 3, exists |-> TRUE]},
        pin_limit \in SlewLimits, port_limit \in SlewLimits,
        rise \in SlewValues, fall \in SlewValues :
       /\ lib = [target_load |->
                   [c \in Corners |-> [cell \in LibertyCells |-> 2]],
                 tgt_slew |-> [c \in Corners |-> 10],
                 in_cap |-> LibInCap,
                 delay |-> ("BUF1" :> [d0 |-> 0, k |-> 1]) @@ GateDelays(0),
                 cap_limit |-> << >>,
                 slew_limit |-> ("INV1" :> port_limit)]
       /\ sta = [required |-> (<<R1, "D">> :> 20),
                 slew |-> [p \in DOMAIN DesignPinNet |->
                             [rise |-> rise, fall |-> fall]],
                 top_slew_limit |-> top,
                 slew_limit |-> [p \in CheckedPins |-> pin_limit],
                 clocks |-> ClockPins]

\* A call of hasMaxSlewViolation(drvr_pin); the log keeps its result.
HasMaxSlewViolation(drvr_pin) ==
  /\ pc = "idle"
  /\ \E top_limit \in Indeterminate :
       log' = <<[op |-> "hasMaxSlewViolation", pin |-> drvr_pin,
                 result |-> hasMaxSlewViolation(drvr_pin, top_limit)]>>
  /\ UNCHANGED <<networkVars, fieldVars, ctlVars, envVars, report>>

NextSlew == \E drvr_pin \in CheckedPins : HasMaxSlewViolation(drvr_pin)

SpecSlew == InitSlew /\ [][NextSlew]_vars

-----------------------------------------------------------------------------
(* The option sets on their own: addWireAndBuffer and the junction case    *)
(* of rebufferBottomUp applied to option sequences of every order.         *)

MaxOptions == 3
MaxBranch == 2
OptionCaps == {1, 2, 3}
OptionRequireds == {4, 8}

\* Options as the subtrees hand them up; their back references play no
\* part in what the two functions compute.
Options ==
  {RebufferOption("junction", cap, required, NoPin, <<0, 0>>,
                  NoOption, NoOption) :
     cap \in OptionCaps, required \in OptionRequireds}
OptionSeqs(n) == UNION {[1..m -> Options] : m \in 0..n}

\* Where the parent point lies: at the node or one unit away.
ParentLocations == {<<0, 0>>, <<1, 0>>}

InitOptions ==
  /\ Constructed
  /\ target_load_map_ = NullMap
  /\ DesignNetwork
  /\ inst_cell = [i \in DesignInsts |->
                    [name |-> IF i = R1 THEN "DFF1"
                              ELSE IF i = X1 THEN "HA" ELSE "INV1",
                     lef |-> FALSE]]
  /\ \E buffer_delay \in BufferDelays :
       lib = [target_load |->
                [c \in Corners |-> [cell \in LibertyCells |-> 2]],
              tgt_slew |-> [c \in Corners |-> 10],
              in_cap |-> LibInCap,
              delay |-> ("BUF1" :> buffer_delay) @@ GateDelays(0),
              cap_limit |-> << >>,
              slew_limit |-> << >>]
  /\ sta = NoTiming

\* A call of addWireAndBuffer(Z, tree, k, prev, level, buffer_cell) with k
\* at the origin; the log keeps the arguments, the wire and the result of
\* the one call a behaviour makes.
AddWireAndBuffer(Z, prev_loc, buffer_cell) ==
  /\ pc = "idle"
  /\ log = << >>
  /\ log' = <<[op |-> "addWireAndBuffer", Z |-> Z, prev_loc |-> prev_loc,
               buffer_cell |-> buffer_cell,
               wire_cap |-> Manhattan(<<0, 0>>, prev_loc) * wire_cap_,
               wire_delay |-> (Manhattan(<<0, 0>>, prev_loc) * wire_res_)
                              * (Manhattan(<<0, 0>>, prev_loc) * wire_cap_),
               Z1 |-> addWireAndBuffer(Z, <<0, 0>>, prev_loc, buffer_cell)]>>
  /\ UNCHANGED <<networkVars, fieldVars, ctlVars, envVars, report>>

\* The junction case of rebufferBottomUp for the option sequences Zl and Zr
\* of the two branches: the cross product Z2 and what the pruning leaves
\* of it, position by position.
Junction(Zl, Zr, buffer_cell) ==
  /\ pc = "idle"
  /\ log = << >>
  /\ \E Z2 \in {junctions(Zl, Zr, <<0, 0>>)} :
       log' = <<[op |-> "junction", Z2 |-> Z2, buffer_cell |-> buffer_cell,
                 pruned |-> prune(Z2, 1, buffer_cell)]>>
  /\ UNCHANGED <<networkVars, fieldVars, ctlVars, envVars, report>>

NextOptions ==
  \/ \E wire_rc \in 0..MaxWireRC : SetWireRC(wire_rc, wire_rc, "typ")
  \/ \E Z \in OptionSeqs(MaxOptions), prev_loc \in ParentLocations :
       AddWireAndBuffer(Z, prev_loc, "BUF1")
  \/ \E Zl \in OptionSeqs(MaxBranch), Zr \in OptionSeqs(MaxBranch) :
       Junction(Zl, Zr, "BUF1")

SpecOptions == InitOptions /\ [][NextOptions]_vars

-----------------------------------------------------------------------------
(* findTargetLoad on its own.  Capacitances are counted in units of        *)
(* cap_init / 1024, so that every halving of cap_step down to cap_tol is   *)
(* exact; a float sum a + b is a once a has reached 2^MantissaBits times   *)
(* b.                                                                      *)

MantissaBits == 12
CapInit == 1024
CapTol == 1

\* a + b in float arithmetic, for a > 0 a multiple of b > 0
FAdd(a, b) == IF a >= (2 ^ MantissaBits) * b THEN a ELSE a + b

\* The arc's model: none, or one whose output slew at load_cap is
\* s0 + k * load_cap / 512.
NoModel == [kind |-> "null"]
GateTimingModels ==
  {[kind |-> "gate", s0 |-> s0, k |-> k] : s0 \in {1, 30}, k \in {0, 1}}
TargetSlews == {3, 10}

\* model->gateDelay(cell, pvt_, 0.0, load_cap, 0.0, false, arc_delay,
\* arc_slew): the slew it returns.
arcSlew(model, load_cap) == model.s0 + (model.k * load_cap) \div 512

\* Resizer::findTargetLoad(cell, arc, in_slew) up to the loop.
FindTargetLoad(model, in_slew) ==
  /\ pc = "idle"
  /\ log = << >>
  /\ IF model # NoModel
     THEN /\ pc' = "findTargetLoad"
          /\ args' = [model |-> model, in_slew |-> in_slew,
                      load_cap |-> CapInit, cap_step |-> CapInit]
          /\ log' = log
     ELSE /\ pc' = "idle"
          /\ args' = args
          /\ log' = <<[op |-> "findTargetLoad", model |-> model,
                       in_slew |-> in_slew, result |-> 0]>>
  /\ UNCHANGED <<networkVars, fieldVars, idx, envVars, report>>

\* One iteration of while (cap_step > cap_tol).
FindTargetLoadStep ==
  /\ pc = "findTargetLoad"
  /\ args.cap_step > CapTol
  /\ args' = IF arcSlew(args.model, args.load_cap) > args.in_slew
             THEN [args EXCEPT
                     !.load_cap = FAdd(args.load_cap - args.cap_step,
                                       args.cap_step \div 2),
                     !.cap_step = args.cap_step \div 2]
             ELSE [args EXCEPT
                     !.load_cap = FAdd(args.load_cap, args.cap_step)]
  /\ UNCHANGED <<networkVars, fieldVars, pc, idx, envVars, report, log>>

\* return load_cap;
FindTargetLoadReturn ==
  /\ pc = "findTargetLoad"
  /\ args.cap_step <= CapTol
  /\ pc' = "idle"
  /\ log' = <<[op |-> "findTargetLoad", model |-> args.model,
               in_slew |-> args.in_slew, result |-> args.load_cap]>>
  /\ UNCHANGED <<networkVars, fieldVars, idx, args, envVars, report>>

NextTargetLoad ==
  \/ \E model \in GateTimingModels \cup {NoModel}, in_slew \in TargetSlews :
       FindTargetLoad(model, in_slew)
  \/ FindTargetLoadStep
  \/ FindTargetLoadReturn

\* The loop runs on its own once entered: nothing else is scheduled.
SpecTargetLoad ==
  /\ InitOptions
  /\ [][NextTargetLoad]_vars
  /\ WF_vars(FindTargetLoadStep)
  /\ WF_vars(FindTargetLoadReturn)

-----------------------------------------------------------------------------
(* The calls with every configuration: any flags, a null buffer cell, a    *)
(* null corner, wire R/C of 0, a design with or without a slew limit.      *)

\* One way the design is linked to liberty cells.
LinkedCells ==
  ( R1 :> [name |-> "DFF1", lef |-> FALSE]
    @@ U1 :> [name |-> "INV1", lef |-> FALSE]
    @@ U2 :> [name |-> "INV2", lef |-> FALSE]
    @@ X1 :> [name |-> "HA", lef |-> FALSE] )

InitConfig ==
  /\ Constructed
  /\ target_load_map_ = NullMap
  /\ DesignNetwork
  /\ inst_cell = LinkedCells
  /\ \E slow \in SUBSET {N2}, top_slew_limit \in {DesignSlewLimit, NoLimit} :
       Timing([d0 |-> 0, k |-> 1], 2, [limit |-> 2, exists |-> TRUE], 20, 10,
              slow, top_slew_limit)

NextConfig ==
  \/ \E wire_rc \in 0..MaxWireRC, corner \in {"typ", NoCorner} :
       SetWireRC(wire_rc, wire_rc, corner)
  \/ \E resize \in BOOLEAN, repair_max_cap \in BOOLEAN,
        repair_max_slew \in BOOLEAN, buffer_cell \in {"BUF1", NoCell} :
       /\ unique_buffer_index_ = 1
       /\ Resize(resize, repair_max_cap, repair_max_slew, buffer_cell)
  \/ ResizeStep
  \/ ResizeDone
  \/ RebufferStep
  \/ RebufferDone

SpecConfig == InitConfig /\ [][NextConfig]_vars

-----------------------------------------------------------------------------
(* Unique names: calls of makeUniqueNetName() and makeUniqueBufferName()   *)
(* interleaved with the creation of nets and instances, by rebufferTopDown *)
(* or by anyone else.  A Resizer that has made seven buffers has its       *)
(* counters at 8; nets and instances with the next names may exist.        *)

StartIndexes == {1, 8}

InitNames ==
  \E start \in StartIndexes :
     /\ Started(start)
     /\ target_load_map_ = NullMap
     /\ \E nets \in SUBSET {NetName(start), NetName(start + 1)},
           buffers \in SUBSET {BufferName(start)} :
          /\ net_names = {ClkNet, N1, N2, N3} \cup nets
          /\ inst_cell = [b \in buffers |-> [name |-> "BUF1", lef |-> FALSE]]
                         @@ LinkedCells
          /\ pin_net = [q \in buffers \X {"A", "Z"} |-> NoNet] @@ DesignPinNet
          /\ inst_loc = [b \in buffers |-> <<0, 0>>] @@ DesignLoc
     /\ parasitics = << >>
     /\ Timing([d0 |-> 0, k |-> 1], 0, NoLimit, 20, 10, {}, DesignSlewLimit)

\* A call of makeUniqueNetName(); the log keeps the name returned, the
\* counter before and after, and the net names present at the call.
MakeUniqueNetName ==
  /\ pc = "idle"
  /\ Len(log) < MaxCalls
  /\ unique_net_index_'
       = makeUniqueNetName(network_, unique_net_index_).index
  /\ log' = Append(log,
       [op |-> "net_name",
        name |-> makeUniqueNetName(network_, unique_net_index_).name,
        index |-> unique_net_index_,
        next |-> unique_net_index_',
        present |-> net_names])
  /\ UNCHANGED <<networkVars, corner_, wire_res_, wire_cap_,
                 level_drvr_verticies_valid_, level_drvr_verticies_,
                 tgt_slews_valid_, tgt_slews_, target_load_map_,
                 unique_buffer_index_, resize_count_, inserted_buffer_count_,
                 rebuffer_net_count_, pc, idx, args, lib, sta, report>>

\* A call of makeUniqueBufferName().
MakeUniqueBufferName ==
  /\ pc = "idle"
  /\ Len(log) < MaxCalls
  /\ unique_buffer_index_'
       = makeUniqueBufferName(network_, unique_buffer_index_).index
  /\ log' = Append(log,
       [op |-> "buffer_name",
        name |-> makeUniqueBufferName(network_, unique_buffer_index_).name,
        index |-> unique_buffer_index_,
        next |-> unique_buffer_index_',
        present |-> DOMAIN inst_cell])
  /\ UNCHANGED <<networkVars, corner_, wire_res_, wire_cap_,
                 level_drvr_verticies_valid_, level_drvr_verticies_,
                 tgt_slews_valid_, tgt_slews_, target_load_map_,
                 unique_net_index_, resize_count_, inserted_buffer_count_,
                 rebuffer_net_count_, pc, idx, args, lib, sta, report>>

\* network->makeNet(): the net of the name returned last, or of the name
\* the counter has reached.
MakeNet ==
  /\ pc = "idle"
  /\ \E k \in (unique_net_index_ - 1)..unique_net_index_ :
       /\ k >= 1
       /\ NetName(k) \notin net_names
       /\ net_names' = makeNet(network_, NetName(k)).net_names
  /\ UNCHANGED <<inst_cell, pin_net, inst_loc, parasitics, fieldVars, ctlVars,
                 envVars, report, log>>

\* network->makeInstance(): likewise for a buffer.
MakeInstance ==
  /\ pc = "idle"
  /\ \E k \in (unique_buffer_index_ - 1)..unique_buffer_index_ :
       /\ k >= 1
       /\ BufferName(k) \notin DOMAIN inst_cell
       /\ inst_cell' = makeInstance(network_, "BUF1", BufferName(k)).inst_cell
       /\ pin_net' = makeInstance(network_, "BUF1", BufferName(k)).pin_net
       /\ inst_loc' = makeInstance(network_, "BUF1", BufferName(k)).inst_loc
  /\ UNCHANGED <<net_names, parasitics, fieldVars, ctlVars, envVars, report,
                 log>>

NextNames ==
  \/ MakeUniqueNetName
  \/ MakeUniqueBufferName
  \/ MakeNet
  \/ MakeInstance

SpecNames == InitNames /\ [][NextNames]_vars

-----------------------------------------------------------------------------
(* Properties of the resize pass. *)

\* The visits of the running (or last) pass, in order.
Visits == {i \in DOMAIN log : log[i].op = "visit"}

\* The visits the selection rule is about: a liberty cell, exactly one
\* output pin and a positive load.
Sized(i) ==
  /\ log[i].liberty # NoCell
  /\ log[i].output[2] # "null"
  /\ log[i].load_cap > 0

\* target_load(c) under the corner in use.
target_load(c) == lib.target_load[corner_][c]

\* min(t/L, L/t) as a fraction; 0 when t = 0.
MinRatio(t, L) ==
  IF t = 0 THEN <<0, 1>> ELSE IF t * t <= L * L THEN <<t, L>> ELSE <<L, t>>

FracLess(a, b) == a[1] * b[2] < b[1] * a[2]

\* The first member of the group that maximizes min(t/L, L/t).
Maximizer(group, L) ==
  LET r(k) == MinRatio(target_load(group[k]), L)
  IN group[CHOOSE k \in DOMAIN group :
             /\ \A j \in DOMAIN group : ~FracLess(r(k), r(j))
             /\ \A j \in 1..(k - 1) : FracLess(r(j), r(k))]

SelectionAsClaimed(i) ==
  LET cell == log[i].liberty
      group == equivCells(cell)
  IN IF group = << >> THEN log[i].to = cell
     ELSE LET c == Maximizer(group, log[i].load_cap)
          IN /\ (log[i].to # cell) <=> (c # cell)
             /\ log[i].to # cell => log[i].to = c

SelectionAsCoded(i) ==
  LET cell == log[i].liberty
      group == equivCells(cell)
  IN IF group = << >> THEN log[i].to = cell
     ELSE LET c == Maximizer(group, log[i].load_cap)
              L == log[i].load_cap
          IN /\ (log[i].to # cell) <=>
                  /\ c # cell
                  /\ target_load(c) > 0
                  /\ log[i].lef => lefCell(c) # NoCell
             /\ log[i].to # cell => log[i].to = c

\* C1 as stated: for an instance with a liberty cell, one output pin and
\* load L > 0, the first member c of the equivalence group maximizing
\* min(target_load(c)/L, L/target_load(c)) is selected, and the cell is
\* replaced if and only if c differs from the current cell.
C1_ReplacedIffMaximizerDiffers == \A i \in Visits : Sized(i) => SelectionAsClaimed(i)

\* C1 amended: the cell is replaced (by that first maximizer c) if and only
\* if c differs from the current cell, target_load(c) > 0 and, when the
\* instance is bound to a LEF macro, c has a LEF macro.
C1_Selection == \A i \in Visits : Sized(i) => SelectionAsCoded(i)

\* C1 witness: a pass in which one sized instance was replaced and another
\* kept its cell because its own cell is the maximizer.
C1_Witness ==
  /\ \E i \in Visits : Sized(i) /\ log[i].to # log[i].liberty
  /\ \E i \in Visits :
       /\ Sized(i)
       /\ log[i].to = log[i].liberty
       /\ Maximizer(equivCells(log[i].liberty), log[i].load_cap)
            = log[i].liberty
       /\ target_load(log[i].liberty) > 0

Replacements == {i \in Visits : log[i].counted}

\* C2 as stated: for every replacement of c by c' at load L,
\* |target_load(c')/L - 1| <= |target_load(c)/L - 1|
\* (multiplied through by L > 0).
C2_DeviationNotWorse ==
  \A i \in Replacements :
     abs(target_load(log[i].to) - log[i].load_cap)
       <= abs(target_load(log[i].liberty) - log[i].load_cap)

\* C2 amended: for every replacement of c by c' at load L,
\* min(target_load(c')/L, L/target_load(c'))
\*   >= min(target_load(c)/L, L/target_load(c)).
C2_FoldedRatioNotWorse ==
  \A i \in Replacements :
     ~FracLess(MinRatio(target_load(log[i].to), log[i].load_cap),
               MinRatio(target_load(log[i].liberty), log[i].load_cap))

\* C2 witness: a replacement that strictly improves the folded ratio.
C2_Witness ==
  \E i \in Replacements :
     FracLess(MinRatio(target_load(log[i].liberty), log[i].load_cap),
              MinRatio(target_load(log[i].to), log[i].load_cap))

\* The pass has ended and printed its count.
Resized == report # << >> /\ report[1].line = "Resized"

\* C3 as stated: the printed count equals the number of distinct instances
\* whose cell was replaced during the pass, and is 0 when no instance ends
\* the pass with another cell than it started with.
C3_CountIsDistinctInstances ==
  Resized =>
    /\ report[1].n = Cardinality({log[i].inst : i \in Replacements})
    /\ (\A inst \in DOMAIN log[1].start :
          inst_cell[inst] = log[1].start[inst]) => report[1].n = 0

-----------------------------------------------------------------------------
(* Properties of the rebuffer pass.  A log record of kind "rebuffer" holds *)
(* what one iteration of the loop did for its driver pin: the network      *)
(* before and after, the chosen option, the retained options of every      *)
(* junction, what rebufferTopDown made and the count it returned.          *)

\* The iterations that ran the engine, and those that chose an option.
Rebuffered == {i \in DOMAIN log : log[i].op = "rebuffer" /\ log[i].run}
Chosen == {i \in Rebuffered : log[i].best # NoOption}

\* The options on the back-reference chain of choice.
RECURSIVE Chain(_)
Chain(choice) ==
  IF choice.type = "null" THEN {}
  ELSE {choice} \cup Chain(choice.ref) \cup Chain(choice.ref2)

\* The buffer instances and the nets created by iteration i.
NewInstances(i) ==
  DOMAIN log[i].after.inst_cell \ DOMAIN log[i].before.inst_cell
NewNets(i) == log[i].after.net_names \ log[i].before.net_names

\* C4 as stated: the count returned by rebufferTopDown equals the number of
\* buffer instances created for the chosen option, and the net counter
\* counts the drivers for which at least one buffer was created.
C4_CountIsBuffersCreated ==
  /\ \A i \in Chosen : log[i].insert_count = Cardinality(NewInstances(i))
  /\ rebuffer_net_count_
       = Cardinality({i \in Chosen : NewInstances(i) # {}})

\* The second half of C4 alone (it holds): the net counter counts the
\* drivers for which at least one buffer was created.
NetCountIsDriversBuffered ==
  rebuffer_net_count_ = Cardinality({i \in Chosen : NewInstances(i) # {}})

\* A chosen option with a buffer option below a buffer option.
NestedBuffers ==
  \E i \in Chosen :
     \E o \in Chain(log[i].best) :
        o.type = "buffer"
        /\ \E o2 \in Chain(o.ref) : o2.type = "buffer"

\* C6: every buffer instance created for a driver lies at the location of a
\* buffer option on the chain of the chosen option, its input is on the net
\* that was threaded when rebufferTopDown reached that option, and its
\* output is on a net created in the same rebuffering that no other new
\* buffer drives.
C6_BuffersWhereChosen ==
  \A i \in Rebuffered :
     \A buffer \in NewInstances(i) :
        \E k \in DOMAIN log[i].made :
           LET m == log[i].made[k]
               after == log[i].after
           IN /\ m.buffer = buffer
              /\ m.option.type = "buffer"
              /\ m.option \in Chain(log[i].best)
              /\ after.inst_cell[buffer].name = args.buffer_cell
              /\ after.inst_loc[buffer] = m.option.location
              /\ after.pin_net[<<buffer, "A">>] = m.net
              /\ m.net \in {log[i].net} \cup NewNets(i)
              /\ after.pin_net[<<buffer, "Z">>] \in NewNets(i)
              /\ \A other \in NewInstances(i) \ {buffer} :
                    after.pin_net[<<other, "Z">>]
                      # after.pin_net[<<buffer, "Z">>]

\* C6 witness: two buffers made for one driver, the second with its input
\* on the output net of the first, away from the origin.
C6_Witness ==
  \E i \in Rebuffered :
     /\ Len(log[i].made) >= 2
     /\ log[i].made[2].net = log[i].made[1].net2
     /\ log[i].made[1].option.location # <<0, 0>>

\* C7 as stated: the load set of the driver's net and of every net made
\* for it is the same after the rebuffering as before.
C7_LoadSetUnchanged ==
  \A i \in Rebuffered :
     \A net \in {log[i].net} \cup NewNets(i) :
        LoadsOfNet(log[i].after, net) = LoadsOfNet(log[i].before, net)

\* C7 amended: every load pin of the driver's net is afterwards on that net
\* or on a net made by the rebuffering; the only other loads on these nets
\* are the inputs of the new buffers; every other net keeps its load set.
C7_LoadsKept ==
  \A i \in Rebuffered :
     LET before == log[i].before
         after == log[i].after
         nets == {log[i].net} \cup NewNets(i)
         loads == LoadsOfNet(before, log[i].net)
     IN /\ \A load_pin \in loads : after.pin_net[load_pin] \in nets
        /\ \A net \in nets :
              LoadsOfNet(after, net)
                \subseteq loads \cup {<<b, "A">> : b \in NewInstances(i)}
        /\ \A net \in before.net_names \ {log[i].net} :
              LoadsOfNet(after, net) = LoadsOfNet(before, net)

\* C7 witness: a load pin moved from the driver's net to a new net.
C7_Witness ==
  \E i \in Rebuffered :
     \E load_pin \in LoadsOfNet(log[i].before, log[i].net) :
        log[i].after.pin_net[load_pin] \in NewNets(i)

\* q has strictly larger required time with a buffer and strictly smaller
\* capacitance than p.
Dominates(q, p) ==
  /\ bufferRequired(q, args.buffer_cell) > bufferRequired(p, args.buffer_cell)
  /\ q.cap < p.cap

\* C8 as stated: no junction retains a pair p, q with q dominating p.
C8_RetainedNotDominated ==
  \A i \in Rebuffered :
     \A j \in DOMAIN log[i].junctions :
        LET Z == log[i].junctions[j]
        IN \A p \in DOMAIN Z, q \in DOMAIN Z : ~Dominates(Z[q], Z[p])

-----------------------------------------------------------------------------
(* Properties of the dispatch and of the configuration.  The first log     *)
(* record holds the network resize() started from.                         *)

\* The pin of iteration i exceeds a max-capacitance limit that exists.
CapViolation(i) ==
  LET port == libertyPort(log[i].pin)
  IN /\ port # NoPort
     /\ capacitanceLimit(port).exists
     /\ log[i].load_cap > capacitanceLimit(port).limit

\* The pin's slew exceeds a max-slew limit that exists.
SlewViolation(pin) ==
  /\ slewLimit(pin, 0).exists
  /\ \E tr \in TransRiseFall : slew(pin, tr) > slewLimit(pin, 0).limit

\* What rebuffering may change is as resize() found it.
NothingRebuffered ==
  /\ DOMAIN inst_cell = DOMAIN log[1].network.inst_cell
  /\ pin_net = log[1].network.pin_net
  /\ net_names = log[1].network.net_names
  /\ inserted_buffer_count_ = 0
  /\ rebuffer_net_count_ = 0

\* C5 as stated: the engine runs on a pin only if the pin is not on the
\* clock network and a repair flag is set whose violation the pin has; with
\* both flags false nothing is rebuffered and the counters stay 0.
C5_EngineOnlyOnViolations ==
  /\ \A i \in Rebuffered :
        /\ ~isClock(log[i].pin)
        /\ \/ args.repair_max_cap /\ CapViolation(i)
           \/ args.repair_max_slew /\ SlewViolation(log[i].pin)
  /\ (log # << >> /\ ~args.repair_max_cap /\ ~args.repair_max_slew)
       => NothingRebuffered

\* The parts of C5 that do not rest on the slew check: no pin of the clock
\* network is rebuffered, a pin is rebuffered only with a flag set, and with
\* both flags false nothing is rebuffered.
HandsOffClockAndFlags ==
  /\ \A i \in Rebuffered :
        /\ ~isClock(log[i].pin)
        /\ args.repair_max_cap \/ args.repair_max_slew
        /\ log[i].cap => args.repair_max_cap /\ CapViolation(i)
        /\ log[i].slew => args.repair_max_slew
  /\ (log # << >> /\ ~args.repair_max_cap /\ ~args.repair_max_slew)
       => NothingRebuffered

\* setWireRC() built the parasitics before resize() was called: it was
\* called, with the wire_res_ and wire_cap_ the pass runs with.
WireRCSet == log # << >> /\ DOMAIN log[1].network.parasitics # {}

\* resize() was called with a null buffer cell and a repair flag, or after
\* wire R/C was set to a non-positive value.
ConfigurationError ==
  /\ log # << >>
  /\ \/ args.buffer_cell = NoCell
        /\ (args.repair_max_cap \/ args.repair_max_slew)
     \/ WireRCSet /\ (wire_res_ <= 0 \/ wire_cap_ <= 0)

\* C10 as stated: a call with a configuration error does not end normally,
\* and replaces no cell, creates no net or instance and builds no
\* parasitic.
C10_ConfigurationFailsFast ==
  ConfigurationError =>
    /\ pc # "idle"
    /\ inst_cell = log[1].network.inst_cell
    /\ net_names = log[1].network.net_names
    /\ parasitics = log[1].network.parasitics

\* A cell was replaced in a call with a null buffer cell and a repair flag.
ReplacedWithNullBuffer ==
  /\ log # << >>
  /\ args.buffer_cell = NoCell
  /\ args.repair_max_cap \/ args.repair_max_slew
  /\ inst_cell # log[1].network.inst_cell

-----------------------------------------------------------------------------
(* Properties of the unique names. *)

NameCalls == {i \in DOMAIN log : log[i].op \in {"net_name", "buffer_name"}}

Prefix(i) ==
  IF log[i].op = "net_name" THEN <<"n", "e", "t">>
  ELSE <<"b", "u", "f", "f", "e", "r">>

\* The characters of the returned name after the prefix.
Suffix(i) == SubSeq(log[i].name, Len(Prefix(i)) + 1, Len(log[i].name))

Digits == {"0", "1", "2", "3", "4", "5", "6", "7", "8", "9"}

\* The number a digit string reads as.
RECURSIVE DecimalValue(_)
DecimalValue(chars) ==
  IF chars = << >> THEN 0
  ELSE 10 * DecimalValue(SubSeq(chars, 1, Len(chars) - 1))
       + (CharCode(chars[Len(chars)]) - CharCode("0"))

\* The name returned by call i is net<k> / buffer<k> for a number k printed
\* without leading zero, and k is not below the counter at the call.
WellFormed(i) ==
  /\ Len(log[i].name) > Len(Prefix(i))
  /\ SubSeq(log[i].name, 1, Len(Prefix(i))) = Prefix(i)
  /\ \A n \in DOMAIN Suffix(i) : Suffix(i)[n] \in Digits
  /\ Len(Suffix(i)) > 1 => Suffix(i)[1] # "0"
  /\ DecimalValue(Suffix(i)) >= log[i].index
  /\ log[i].next = DecimalValue(Suffix(i)) + 1

\* C9: every name returned is net<k> / buffer<k>, is not the name of a net /
\* instance present at the call, differs from the names returned earlier,
\* and k grows from call to call; the numbers passed over are those of
\* names that were present.
C9_NamesUnique ==
  \A i \in NameCalls :
     /\ WellFormed(i)
     /\ log[i].name \notin log[i].present
     /\ \A j \in NameCalls :
           (j < i /\ log[j].op = log[i].op)
             => /\ log[j].name # log[i].name
                /\ DecimalValue(Suffix(j)) < DecimalValue(Suffix(i))
     /\ \A k \in log[i].index..(DecimalValue(Suffix(i)) - 1) :
           (Prefix(i) \o Decimal(k)) \in log[i].present

\* C9 witness: a call that passed over a name that was present and returned
\* a two-digit name, after an earlier call of the same kind.
C9_Witness ==
  \E i \in NameCalls, j \in NameCalls :
     /\ j < i
     /\ log[j].op = log[i].op
     /\ DecimalValue(Suffix(i)) > log[i].index
     /\ Len(Suffix(i)) = 2

-----------------------------------------------------------------------------
(* Properties of the caches. *)

\* A resize pass or a resize of one instance is under way.
Resizing == pc \in {"resize", "resize_inst"}

\* C11 as stated: what a pass uses was computed under its corner: the
\* target-load map and the target slews are those of corner_.
C11_CachesOfCurrentCorner ==
  (Resizing /\ target_load_map_.ptr = "map")
    => /\ target_load_map_.map = lib.target_load[corner_]
       /\ tgt_slews_ = lib.tgt_slew[corner_]

\* The caches are computed on first use and kept from then on, whatever the
\* corner becomes.
CachesKept ==
  [][target_load_map_.ptr = "map"
       => /\ target_load_map_' = target_load_map_
          /\ tgt_slews_' = tgt_slews_
          /\ tgt_slews_valid_']_vars

-----------------------------------------------------------------------------
(* Properties of the max-slew check. *)

SlewChecks == {i \in DOMAIN log : log[i].op = "hasMaxSlewViolation"}

\* The limits that apply to the pin and exist: the design's, and the
\* top-level port's for a top-level port, else the pin's and the library
\* port's.
ApplicableLimits(pin) ==
  {l.limit : l \in {m \in {sdcTopSlewLimit, sdcSlewLimit(pin)}
                            \cup (IF ~isTopLevelPort(pin)
                                     /\ libertyPort(pin) # NoPort
                                  THEN {portSlewLimit(libertyPort(pin))}
                                  ELSE {}) : m.exists}}

\* A limit exists and the rise or fall slew exceeds the smallest, which is
\* to exceed one of them.
ExceedsTightest(pin) ==
  \E tr \in TransRiseFall :
     \E l \in ApplicableLimits(pin) : slew(pin, tr) > l

\* C12 as stated: hasMaxSlewViolation(pin) is true exactly when a limit
\* exists and the slew exceeds the smallest existing limit; it is false
\* when no limit exists.
C12_ViolationIffLimitExceeded ==
  \A i \in SlewChecks : log[i].result = ExceedsTightest(log[i].pin)

\* With a limit, the result is as stated.
ViolationIffExceededWhenLimited ==
  \A i \in SlewChecks :
     ApplicableLimits(log[i].pin) # {}
       => log[i].result = ExceedsTightest(log[i].pin)

\* A violation reported for a pin with no limit.
ViolationWithoutLimit ==
  \E i \in SlewChecks :
     log[i].result /\ ApplicableLimits(log[i].pin) = {}

-----------------------------------------------------------------------------
(* Properties of the netlist across a resize pass. *)

\* The members of the cell's equivalence group, the cell itself included.
Group(cell) ==
  {cell} \cup {equivCells(cell)[n] : n \in DOMAIN equivCells(cell)}

\* C13: from the start of a resize pass on, every instance has a cell of
\* the group of the cell it started with, of the same kind (LEF or liberty)
\* and with the same ports; no instance, net or pin has come or gone and
\* every pin is on the net it was on.
C13_CellsStayInGroup ==
  (log # << >> /\ args.resize /\ pc \in {"resize", "idle"})
    => /\ DOMAIN inst_cell = DOMAIN log[1].start
       /\ \A inst \in DOMAIN inst_cell :
             /\ inst_cell[inst].name \in Group(log[1].start[inst].name)
             /\ inst_cell[inst].lef = log[1].start[inst].lef
             /\ CellPorts(inst_cell[inst].name)
                  = CellPorts(log[1].start[inst].name)
       /\ net_names = log[1].network.net_names
       /\ pin_net = log[1].network.pin_net

\* C13 witness: a finished pass that replaced one instance twice and left
\* another with a cell it did not start with.
C13_Witness ==
  /\ Resized
  /\ \E i \in Replacements, j \in Replacements :
        i < j /\ log[i].inst = log[j].inst
  /\ \E k \in Replacements :
        inst_cell[log[k].inst] # log[1].start[log[k].inst]

-----------------------------------------------------------------------------
(* Properties of rebuffer(drvr_pin, buffer_cell) on an unconstrained      *)
(* driver.                                                                 *)

\* The iteration at position idx ran the engine on an unconstrained driver.
RanUnconstrained ==
  /\ pc = "rebuffer" /\ idx >= 1
  /\ abs(pinRequired(level_drvr_verticies_[idx])) = INF
  /\ pc' = "rebuffer"
  /\ log'[Len(log')].run

\* C14: rebuffer(drvr_pin, buffer_cell) on a driver whose required time is
\* infinite leaves the netlist, the validity flag of the levelized list and
\* the two counters as they were.
C14_UnconstrainedUntouched ==
  [][RanUnconstrained
       => UNCHANGED <<networkVars, level_drvr_verticies_valid_,
                      inserted_buffer_count_, rebuffer_net_count_,
                      unique_net_index_, unique_buffer_index_>>]_vars

\* C14 witness: the engine ran on an unconstrained driver of a net with
\* loads, and the netlist after is the netlist before.
C14_Witness ==
  \E i \in Rebuffered :
    /\ ~log[i].constrained
    /\ abs(pinRequired(log[i].pin)) = INF
    /\ log[i].net # NoNet
    /\ log[i].after = log[i].before
    /\ log[i].after = network_

-----------------------------------------------------------------------------
(* Properties of addWireAndBuffer.                                         *)

WireCalls == {i \in DOMAIN log : log[i].op = "addWireAndBuffer"}

\* The options of Z as a set.
OptionsOf(Z) == {Z[n] : n \in DOMAIN Z}

\* The required time at the input of a buffer that drives option p through
\* the wire of call e.
BehindWire(e, p) ==
  FSub(FSub(p.required, e.wire_delay),
       bufferDelay(e.buffer_cell, p.cap + e.wire_cap))

\* What every call emits whichever way the buffer option is timed: nothing
\* on an empty Z, else the |Z| wire options in order and then one buffer
\* option at the parent's location with the buffer's input capacitance.
WiresThenOneBuffer(e) ==
  /\ Len(e.Z) = 0 => e.Z1 = << >>
  /\ Len(e.Z) > 0 =>
       /\ Len(e.Z1) = Len(e.Z) + 1
       /\ \A n \in DOMAIN e.Z :
            e.Z1[n] = RebufferOption("wire", e.Z[n].cap + e.wire_cap,
                                     FSub(e.Z[n].required, e.wire_delay),
                                     NoPin, e.prev_loc, e.Z[n], NoOption)
       /\ e.Z1[Len(e.Z1)].type = "buffer"
       /\ e.Z1[Len(e.Z1)].cap = bufferInputCapacitance(e.buffer_cell)
       /\ e.Z1[Len(e.Z1)].location = e.prev_loc
       /\ e.Z1[Len(e.Z1)].ref \in OptionsOf(e.Z)

\* C15 as stated: the buffer option refers to the p* of Z that maximizes
\* p.required - buffer_delay(B, p.cap) and its required time is
\* p*.required - buffer_delay(B, p*.cap).
C15_BufferAtOption ==
  \A i \in WireCalls :
    /\ WiresThenOneBuffer(log[i])
    /\ Len(log[i].Z) > 0 =>
         LET b == log[i].Z1[Len(log[i].Z1)]
         IN /\ b.required = bufferRequired(b.ref, log[i].buffer_cell)
            /\ \A p \in OptionsOf(log[i].Z) :
                 bufferRequired(p, log[i].buffer_cell) <= b.required

\* C15 amended: the buffer is timed behind the wire to the parent; the
\* buffer option refers to the p* of Z that maximizes
\* (p.required - wire_delay) - buffer_delay(B, p.cap + wire_cap) and that
\* value is its required time.
C15_BufferBehindWire ==
  \A i \in WireCalls :
    /\ WiresThenOneBuffer(log[i])
    /\ Len(log[i].Z) > 0 =>
         LET b == log[i].Z1[Len(log[i].Z1)]
         IN /\ b.required = BehindWire(log[i], b.ref)
            /\ \A p \in OptionsOf(log[i].Z) :
                 BehindWire(log[i], p) <= b.required

\* C15 witness: a call on several options over a wire with delay and load
\* whose best option is not the first.
C15_Witness ==
  \E i \in WireCalls :
    /\ Len(log[i].Z) > 1
    /\ log[i].wire_delay > 0
    /\ log[i].wire_cap > 0
    /\ log[i].Z1[Len(log[i].Z1)].type = "buffer"
    /\ log[i].Z1[Len(log[i].Z1)].ref # log[i].Z[1]
    /\ BehindWire(log[i], log[i].Z[1])
         < log[i].Z1[Len(log[i].Z1)].required

-----------------------------------------------------------------------------
(* Properties of the junction pruning.                                     *)

JunctionCalls == {i \in DOMAIN log : log[i].op = "junction"}

\* The option at position n of Z2 is dominated by an option of Z2.
DominatedIn(Z2, n, buffer_cell) ==
  \E m \in DOMAIN Z2 :
    /\ bufferRequired(Z2[m], buffer_cell) > bufferRequired(Z2[n], buffer_cell)
    /\ Z2[m].cap < Z2[n].cap

\* C16: the pruning removes an option of the cross product Z2 if and only
\* if another option of Z2 has a strictly larger required time behind a
\* buffer and a strictly smaller capacitance.
C16_RemovedIffDominated ==
  \A i \in JunctionCalls :
    \A n \in DOMAIN log[i].Z2 :
      (log[i].pruned[n] = NoOption)
        <=> DominatedIn(log[i].Z2, n, log[i].buffer_cell)

\* The part of C16 that the pruning keeps: a cross product in which no
\* option is dominated is left whole.
NothingDominatedNothingRemoved ==
  \A i \in JunctionCalls :
    (\A n \in DOMAIN log[i].Z2 :
       ~DominatedIn(log[i].Z2, n, log[i].buffer_cell))
      => log[i].pruned = log[i].Z2

\* An option that nothing dominates is removed while a dominated one stays.
UndominatedRemoved ==
  \E i \in JunctionCalls :
    \E n \in DOMAIN log[i].Z2, m \in DOMAIN log[i].Z2 :
      /\ log[i].pruned[n] = NoOption
      /\ ~DominatedIn(log[i].Z2, n, log[i].buffer_cell)
      /\ log[i].pruned[m] # NoOption
      /\ DominatedIn(log[i].Z2, m, log[i].buffer_cell)

-----------------------------------------------------------------------------
(* Properties of the levelized list in a rebuffering pass.                 *)

InRebufferPass == pc = "rebuffer" \/ (pc = "idle" /\ Rebuffered # {})

\* C17: in a rebuffering pass the engine runs only on pins that drive
\* their net and at most once on each; the levelized list holds driver
\* pins only, each once, in order of level and then of pin path name.
C17_EngineOncePerDriver ==
  InRebufferPass =>
    /\ \A i \in Rebuffered : isDriver(log[i].pin)
    /\ \A i \in Rebuffered, j \in Rebuffered :
         log[i].pin = log[j].pin => i = j
    /\ \A n \in DOMAIN level_drvr_verticies_ :
         isDriver(level_drvr_verticies_[n])
    /\ \A n \in DOMAIN level_drvr_verticies_,
          m \in DOMAIN level_drvr_verticies_ :
         n < m => VertexLevelLess(
                    <<Level(level_drvr_verticies_[n]),
                      level_drvr_verticies_[n]>>,
                    <<Level(level_drvr_verticies_[m]),
                      level_drvr_verticies_[m]>>)

\* The part of C17 that the pass keeps: the engine runs at most once on a
\* pin, and the list holds each pin once, in order of level and then of pin
\* path name for the netlist it was built from.
EngineOncePerPin ==
  InRebufferPass =>
    /\ \A i \in Rebuffered, j \in Rebuffered :
         log[i].pin = log[j].pin => i = j
    /\ \A n \in DOMAIN level_drvr_verticies_,
          m \in DOMAIN level_drvr_verticies_ :
         /\ level_drvr_verticies_[n] = level_drvr_verticies_[m] => n = m
         /\ (n < m /\ DOMAIN inst_cell = DesignInsts)
              => VertexLevelLess(
                   <<Level(level_drvr_verticies_[n]),
                     level_drvr_verticies_[n]>>,
                   <<Level(level_drvr_verticies_[m]),
                     level_drvr_verticies_[m]>>)

\* The engine ran on a load pin and inserted a buffer.
EngineOnLoadPin ==
  \E i \in Rebuffered : isLoad(log[i].pin) /\ log[i].insert_count > 0

-----------------------------------------------------------------------------
(* Properties of the order of the resize pass.                             *)

\* The load pins of the nets that the output pins of inst drive.
LoadPins(inst) ==
  {p \in Pins : /\ isLoad(p)
                /\ pin_net[p] # NoNet
                /\ \E q \in Pins : /\ instance(q) = inst
                                   /\ isDriver(q)
                                   /\ pin_net[q] = pin_net[p]}

\* The instances loading inst, and those of them with a timing arc from
\* the loading pin to an output (a register's data input has none).
LoadInstances(inst) == {instance(p) : p \in LoadPins(inst)}
GateLoadInstances(inst) ==
  {instance(p) : p \in {l \in LoadPins(inst) :
                          \E q \in Pins : /\ instance(q) = instance(l)
                                           /\ isDriver(q)
                                           /\ l \in Fanin(q)}}

-----------------------------------------------------------------------------
(* Properties of findTargetLoad.                                           *)

\* C19: a call of findTargetLoad returns, whatever the model and the
\* target slew.
C19_FindTargetLoadTerminates == (pc = "findTargetLoad") ~> (pc = "idle")

\* The part of C19 that the loop keeps: the call returns when the model's
\* slew exceeds the target at some load the search reaches.
TerminatesWhenSlewExceeds ==
  (pc = "findTargetLoad"
     /\ (args.model.k > 0 \/ args.model.s0 > args.in_slew))
    ~> (pc = "idle")

\* The search has stopped moving with the step as large as at the start.
SearchStuck ==
  /\ pc = "findTargetLoad"
  /\ args.cap_step = CapInit
  /\ FAdd(args.load_cap, args.cap_step) = args.load_cap
  /\ arcSlew(args.model, args.load_cap) <= args.in_slew

-----------------------------------------------------------------------------
(* Properties of the connectivity after rebuffering.                       *)

\* The pins that drive net in network when the instances of buffers are
\* looked through: a buffer's output stands for the drivers of the net at
\* its input.
RECURSIVE SourcesOf(_, _, _)
SourcesOf(network, net, buffers) ==
  IF net = NoNet THEN {}
  ELSE UNION {IF instance(q) \in buffers
              THEN SourcesOf(network, network.pin_net[<<instance(q), "A">>],
                             buffers \ {instance(q)})
              ELSE {q} : q \in DriversOfNet(network, net)}

\* C20: after the engine has applied an option to a net, every former load
\* pin of the net is on one net and is driven by the net's driver, directly
\* or through inserted buffers; every net that was made has one driver, a
\* buffer output, and at least one load; the net keeps its driver.
C20_ConnectivityPreserved ==
  \A i \in Chosen :
     LET before == log[i].before
         after == log[i].after
     IN /\ \A load_pin \in LoadsOfNet(before, log[i].net) :
             /\ after.pin_net[load_pin] \in after.net_names
             /\ SourcesOf(after, after.pin_net[load_pin], NewInstances(i))
                  = DriversOfNet(before, log[i].net)
        /\ \A net \in NewNets(i) :
             /\ \E b \in NewInstances(i) :
                  DriversOfNet(after, net) = {<<b, "Z">>}
             /\ LoadsOfNet(after, net) # {}
        /\ DriversOfNet(after, log[i].net) = DriversOfNet(before, log[i].net)
        /\ DriversOfNet(before, log[i].net) # {}

\* C20 witness: an option with a buffer behind a buffer was applied, and a
\* former load of the net is reached from the driver through both.
C20_Witness ==
  \E i \in Chosen :
     \E load_pin \in LoadsOfNet(log[i].before, log[i].net) :
        \E b1 \in NewInstances(i), b2 \in NewInstances(i) :
           /\ b1 # b2
           /\ log[i].after.pin_net[load_pin]
                = log[i].after.pin_net[<<b2, "Z">>]
           /\ log[i].after.pin_net[<<b2, "A">>]
                = log[i].after.pin_net[<<b1, "Z">>]
           /\ log[i].after.pin_net[<<b1, "A">>] = log[i].net

=============================================================================
